---- MODULE Spec2Model ----
(***************************************************************************)
(* Model of the tabular cleaning pipeline (lib/cleaning/dataframes.py), of *)
(* the ranked composite-key finder (lib/smarts/column_determination.py),   *)
(* of the file readers (lib/files.py), of the configuration module         *)
(* (app_config.py) and of the staging directory (lib/stage.py).            *)
(*                                                                         *)
(* A string is a sequence of one-character strings.  A cell is a tagged    *)
(* tuple: <<"null">>, <<"s", chars>> (Utf8 / Categorical), <<"f", m, e>>   *)
(* (the float m * 10^-e, normalised), <<"i", n>> (integer) or              *)
(* <<"d", y, mo, d>> (date).  A column is [name, dtype, vals]; a table is  *)
(* a sequence of columns of equal length.                                  *)
(***************************************************************************)
EXTENDS Integers, Sequences, FiniteSets, TLC

VARIABLES
    raw, df, post_contents, cpc,
    nm_in, nm_cur, nm_pc,
    kdf, n_candidates, max_key_size, sample_size,
    eligible_columns, sample_df, single_column_candidates,
    prefer_patterns, candidates, size, examined, result, kpc,
    col_combo, score_patterns, col_idx, score, spc,
    fcall, fsheet, fresults, fout, fpc,
    config, config_path, config_file, ccall, cret, ncalls,
    sources, staging, stg_op, stg_pc, stg_idx, stg_locked, stg_before,
    stg_written

cleanVars == <<raw, df, post_contents, cpc>>
nameVars == <<nm_in, nm_cur, nm_pc>>
keyVars == <<kdf, n_candidates, max_key_size, sample_size, prefer_patterns,
             eligible_columns, sample_df, single_column_candidates, candidates,
             size, examined, result, kpc>>
scoreVars == <<col_combo, score_patterns, col_idx, score, spc>>
fileVars == <<fcall, fsheet, fresults, fout, fpc>>
cfgVars == <<config, config_path, config_file, ccall, cret, ncalls>>
stageVars == <<sources, staging, stg_op, stg_pc, stg_idx, stg_locked,
               stg_before, stg_written>>
vars == <<cleanVars, nameVars, keyVars, scoreVars, fileVars, cfgVars,
          stageVars>>

\* ------------------------------------------------------------------ bounds
\* Rows and columns of an input table of the cleaning pipeline.
MaxRows == 2
MaxCols == 2
\* Length of a column name handed to the sanitizer on its own.
MaxNameLen == 3
\* Rows and columns of an input table of the key finder.
MaxKeyRows == 3
MaxKeyCols == 3
\* Calls of one session of the configuration module.
MaxCalls == 4
\* Largest n_candidates and max_key_size a caller passes.
MaxCandidates == 2
MaxKeySize == 3

\* ----------------------------------------------------------------- strings
Null == <<"null">>
S(chars) == <<"s", chars>>
IsNull(c) == c = Null

\* str.strip() / .str.strip_chars() / regex \s: the whitespace of the alphabet.
Whitespace == {" ", "\t"}

RECURSIVE LStrip(_)
LStrip(s) == IF s # <<>> /\ Head(s) \in Whitespace THEN LStrip(Tail(s)) ELSE s

RECURSIVE RStrip(_)
RStrip(s) ==
    IF s # <<>> /\ s[Len(s)] \in Whitespace
    THEN RStrip(SubSeq(s, 1, Len(s) - 1))
    ELSE s

Strip(s) == RStrip(LStrip(s))

\* str.replace(c, r) for a one-character c and a one-character r.
ReplaceChar(s, c, r) == [i \in 1..Len(s) |-> IF s[i] = c THEN r ELSE s[i]]

\* str.replace(c, "") for a one-character c.
RemoveChar(s, c) == SelectSeq(s, LAMBDA x : x # c)

SeqToSet(s) == {s[i] : i \in 1..Len(s)}

\* ------------------------------------------------------- df_clean_columns
SAFE_COLUMN_SPACE_CHAR == "_"
UNSAFE_COLUMN_SPACE_CHARS == <<" ", "-">>
UNSAFE_COLUMN_GENERAL_CHARS ==
    <<"!", "@", "#", "$", "%", "^", "&", "*", "(", ")", "+", "=", "{", "}",
      "[", "]", ":", ";", "\"", "'", "<", ">", ",", ".", "?", "/", "|", "\\">>

\* for char in UNSAFE_COLUMN_SPACE_CHARS: sanitized = sanitized.replace(char, "_")
RECURSIVE ReplaceSpaceChars(_, _)
ReplaceSpaceChars(s, k) ==
    IF k > Len(UNSAFE_COLUMN_SPACE_CHARS) THEN s
    ELSE ReplaceSpaceChars(
             ReplaceChar(s, UNSAFE_COLUMN_SPACE_CHARS[k], SAFE_COLUMN_SPACE_CHAR),
             k + 1)

\* for char in UNSAFE_COLUMN_GENERAL_CHARS: sanitized = sanitized.replace(char, "")
RECURSIVE PurgeGeneralChars(_, _)
PurgeGeneralChars(s, k) ==
    IF k > Len(UNSAFE_COLUMN_GENERAL_CHARS) THEN s
    ELSE PurgeGeneralChars(RemoveChar(s, UNSAFE_COLUMN_GENERAL_CHARS[k]), k + 1)

SanitizeName(col_name) ==
    PurgeGeneralChars(ReplaceSpaceChars(Strip(col_name), 1), 1)

Names(t) == [i \in 1..Len(t) |-> t[i].name]
Injective(s) == \A i, j \in 1..Len(s) : s[i] = s[j] => i = j

\* A rename that lets two columns take one name.
CleanColumnsRaises_Never(t) == FALSE

\* df.rename(dict(zip(df.columns, cols_clean))): a mapping that gives two
\* columns one name makes the rename raise (polars DuplicateError).
CleanColumnsRaises(t) == ~Injective([i \in 1..Len(t) |-> SanitizeName(t[i].name)])

df_clean_columns(t) ==
    [i \in 1..Len(t) |-> [t[i] EXCEPT !.name = SanitizeName(t[i].name)]]

\* ------------------------------------------------------ df_clean_contents
NULL_VALUE_STRINGS ==
    { <<"*">>, <<"N", "/", "A">>, <<"N", ".", "A", ".">>, <<"#", "N", "/", "A">>,
      <<"?", "?", "?">>, <<"N", "U", "L", "L">>, <<"n", "u", "l", "l">> }

Height(t) == IF t = <<>> THEN 0 ELSE Len(t[1].vals)

\* A canonicalisation that matches the markers before it strips.
CleanCell_MatchFirst(c) ==
    IF IsNull(c) THEN Null
    ELSE IF c[2] \in NULL_VALUE_STRINGS THEN Null ELSE S(Strip(c[2]))

\* .str.strip_chars().map_elements(lambda x: None if x and x in NULL_VALUE_STRINGS else x)
\* (a null element is passed over by both).
CleanCell(c) ==
    IF IsNull(c) THEN Null
    ELSE LET x == Strip(c[2])
         IN  IF x # <<>> /\ x \in NULL_VALUE_STRINGS THEN Null ELSE S(x)

CleanStrings(t) ==
    [i \in 1..Len(t) |->
        IF t[i].dtype = "Utf8"
        THEN [t[i] EXCEPT !.vals = [r \in 1..Len(t[i].vals) |-> CleanCell(t[i].vals[r])]]
        ELSE t[i]]

\* A column test that lets a column without rows stand.
ColAllNull_NonEmpty(col) ==
    col.vals # <<>> /\ \A r \in 1..Len(col.vals) : IsNull(col.vals[r])

RowAllNull(t, r) == \A i \in 1..Len(t) : IsNull(t[i].vals[r])
ColAllNull(col) == \A r \in 1..Len(col.vals) : IsNull(col.vals[r])

RECURSIVE KeepRows(_, _)
KeepRows(vals, keep) ==
    IF vals = <<>> THEN <<>>
    ELSE (IF keep[1] THEN <<Head(vals)>> ELSE <<>>) \o KeepRows(Tail(vals), Tail(keep))

\* A row filter that also drops a row equal to an earlier one.
DropNullRows_Dedup(t) ==
    LET keep == [r \in 1..Height(t) |->
                    /\ ~RowAllNull(t, r)
                    /\ \A q \in 1..(r - 1) : \E i \in 1..Len(t) : t[i].vals[q] # t[i].vals[r]]
    IN  [i \in 1..Len(t) |-> [t[i] EXCEPT !.vals = KeepRows(t[i].vals, keep)]]

\* df.filter(~pl.all_horizontal(pl.all().is_null()))
DropNullRows(t) ==
    LET keep == [r \in 1..Height(t) |-> ~RowAllNull(t, r)]
    IN  [i \in 1..Len(t) |-> [t[i] EXCEPT !.vals = KeepRows(t[i].vals, keep)]]

\* df.select([col for col in df.columns if not df[col].is_null().all()])
DropNullCols(t) == SelectSeq(t, LAMBDA col : ~ColAllNull(col))

\* A cleaning that forgets the column pruning.
df_clean_contents_RowsOnly(t) == DropNullRows(CleanStrings(t))

df_clean_contents(t) == DropNullCols(DropNullRows(CleanStrings(t)))

\* ------------------------------------------------------ redetermine_types
Digits == {"0", "1", "2", "3", "4", "5", "6", "7", "8", "9"}
DigitChars == <<"0", "1", "2", "3", "4", "5", "6", "7", "8", "9">>
DigitVal(c) == (CHOOSE i \in 1..10 : DigitChars[i] = c) - 1

RECURSIVE DigitsVal(_)
DigitsVal(s) ==
    IF s = <<>> THEN 0
    ELSE DigitsVal(SubSeq(s, 1, Len(s) - 1)) * 10 + DigitVal(s[Len(s)])

CountChar(s, c) == Cardinality({i \in 1..Len(s) : s[i] = c})
IndexOf(s, c) == CHOOSE i \in 1..Len(s) : s[i] = c /\ \A j \in 1..(i - 1) : s[j] # c

\* The float m * 10^-e without trailing zeros in its fraction.
RECURSIVE Normalise(_, _)
Normalise(m, e) ==
    IF e > 0 /\ m % 10 = 0 THEN Normalise(m \div 10, e - 1) ELSE <<"f", m, e>>

\* cast(pl.Float64, strict=False) of one string: an optional sign, digits with at
\* most one decimal point and at least one digit; anything else gives null.
\* (Exponents, "inf" and "nan" need letters that no modelled value holds.)
ParseFloat(s) ==
    LET signed == s # <<>> /\ Head(s) \in {"-", "+"}
        body == IF signed THEN Tail(s) ELSE s
        dots == CountChar(body, ".")
        ok == /\ SeqToSet(body) \subseteq Digits \cup {"."}
              /\ dots <= 1
              /\ Len(body) - dots >= 1
        dot == IF dots = 1 THEN IndexOf(body, ".") ELSE Len(body) + 1
        ip == SubSeq(body, 1, dot - 1)
        fp == SubSeq(body, dot + 1, Len(body))
        mag == DigitsVal(ip \o fp)
    IN  IF ~ok THEN Null
        ELSE Normalise(IF Head(s) = "-" THEN 0 - mag ELSE mag, Len(fp))

CastFloat(c) == IF IsNull(c) THEN Null ELSE ParseFloat(c[2])

AllCells(col, P(_)) == \A r \in 1..Len(col.vals) : P(col.vals[r])
AnyCell(col, P(_)) == \E r \in 1..Len(col.vals) : P(col.vals[r])
MapCells(col, F(_)) == [r \in 1..Len(col.vals) |-> F(col.vals[r])]
NotNull(c) == ~IsNull(c)

\* Pass 1: df[col].dtype == pl.Utf8 and df[col].cast(Float64, strict=False).is_not_null().all()
PlainNumericApplies(col) ==
    col.dtype = "Utf8" /\ AllCells(col, LAMBDA c : NotNull(CastFloat(c)))

PlainNumericPass(t) ==
    [i \in 1..Len(t) |->
        IF PlainNumericApplies(t[i])
        THEN [t[i] EXCEPT !.dtype = "Float64", !.vals = MapCells(t[i], CastFloat)]
        ELSE t[i]]

\* regex_parentheses_negative = ^\s*\(([0-9,.]+)\)\s*$
ParenInner(s) == SubSeq(Strip(s), 2, Len(Strip(s)) - 1)
MatchesParen(s) ==
    LET x == Strip(s)
    IN  /\ Len(x) >= 3
        /\ x[1] = "(" /\ x[Len(x)] = ")"
        /\ SeqToSet(ParenInner(s)) \subseteq Digits \cup {",", "."}

\* regex_currency_cleanup = [$...,\s]: the dollar sign stands for the currency
\* symbols (the others are outside the modelled alphabet).
CurrencyCleanupChars == {"$", ","} \cup Whitespace
StripCurrency(s) == SelectSeq(s, LAMBDA x : x \notin CurrencyCleanupChars)

\* .str.replace_all(regex_parentheses_negative, "-$1").str.replace_all(regex_currency_cleanup, "")
ParenRewrite(s) ==
    StripCurrency(IF MatchesParen(s) THEN <<"-">> \o ParenInner(s) ELSE s)

ParenCast(c) == IF IsNull(c) THEN Null ELSE ParseFloat(ParenRewrite(c[2]))

\* Pass 2: df[col].dtype == pl.Utf8 and df[col].str.contains(regex).any()
ParenNegativeApplies(col) ==
    col.dtype = "Utf8" /\ AnyCell(col, LAMBDA c : NotNull(c) /\ MatchesParen(c[2]))

\* .cast(pl.Float64) is strict: one non-null value that does not parse raises.
ParenNegativeRaises(t) ==
    \E i \in 1..Len(t) :
        /\ ParenNegativeApplies(t[i])
        /\ AnyCell(t[i], LAMBDA c : NotNull(c) /\ IsNull(ParenCast(c)))

ParenNegativePass(t) ==
    [i \in 1..Len(t) |->
        IF ParenNegativeApplies(t[i])
        THEN [t[i] EXCEPT !.dtype = "Float64", !.vals = MapCells(t[i], ParenCast)]
        ELSE t[i]]

CurrencyCast(c) == IF IsNull(c) THEN Null ELSE ParseFloat(StripCurrency(c[2]))

\* Pass 3: Utf8 and the stripped column casts (strict=False) with no null.
CurrencyApplies(col) ==
    col.dtype = "Utf8" /\ AllCells(col, LAMBDA c : NotNull(CurrencyCast(c)))

CurrencyPass(t) ==
    [i \in 1..Len(t) |->
        IF CurrencyApplies(t[i])
        THEN [t[i] EXCEPT !.dtype = "Float64", !.vals = MapCells(t[i], CurrencyCast)]
        ELSE t[i]]

\* Pass 4: Float64 and (df[col] == df[col].floor()).all(); a null comparison is
\* null, which all() passes over.
IsWhole(c) == IsNull(c) \/ c[3] = 0

\* A whole-number test that asks for a column that came in as Float.
WholeNumberApplies_FromInput(col) ==
    /\ \E i \in 1..Len(post_contents) :
          post_contents[i].name = col.name /\ post_contents[i].dtype = "Float64"
    /\ col.dtype = "Float64"
    /\ \A r \in 1..Len(col.vals) : IsWhole(col.vals[r])
WholeNumberApplies(col) == col.dtype = "Float64" /\ AllCells(col, IsWhole)
CastInt(c) == IF IsNull(c) THEN Null ELSE <<"i", c[2]>>

WholeNumberPass(t) ==
    [i \in 1..Len(t) |->
        IF WholeNumberApplies(t[i])
        THEN [t[i] EXCEPT !.dtype = "Int64", !.vals = MapCells(t[i], CastInt)]
        ELSE t[i]]

IsLeap(y) == (y % 4 = 0 /\ y % 100 # 0) \/ y % 400 = 0
DaysIn(y, mo) ==
    IF mo = 2 THEN (IF IsLeap(y) THEN 29 ELSE 28)
    ELSE IF mo \in {4, 6, 9, 11} THEN 30 ELSE 31

\* .str.to_date("%Y-%m-%d", strict=False) of one string: dddd-dd-dd naming a
\* day of the calendar; anything else gives null.
ParseDate(s) ==
    LET shaped == /\ Len(s) = 10
                  /\ s[5] = "-" /\ s[8] = "-"
                  /\ \A i \in {1, 2, 3, 4, 6, 7, 9, 10} : s[i] \in Digits
        y == DigitsVal(SubSeq(s, 1, 4))
        mo == DigitsVal(SubSeq(s, 6, 7))
        d == DigitsVal(SubSeq(s, 9, 10))
    IN  IF shaped /\ mo \in 1..12 /\ d >= 1 /\ d <= DaysIn(y, mo)
        THEN <<"d", y, mo, d>>
        ELSE Null

CastDate(c) == IF IsNull(c) THEN Null ELSE ParseDate(c[2])

\* Pass 5: Utf8 or Categorical, and to_date(strict=False).is_not_null().all()
DateApplies(col) ==
    col.dtype \in {"Utf8", "Categorical"} /\ AllCells(col, LAMBDA c : NotNull(CastDate(c)))

DatePass(t) ==
    [i \in 1..Len(t) |->
        IF DateApplies(t[i])
        THEN [t[i] EXCEPT !.dtype = "Date", !.vals = MapCells(t[i], CastDate)]
        ELSE t[i]]

CategoricalCap == 250
Min(a, b) == IF a <= b THEN a ELSE b

\* Pass 6: Utf8 and df[col].n_unique() <= min(250, df.height * 0.10)
\* (n_unique counts null as a value; both sides are taken times ten).
CategoricalApplies(col, height) ==
    /\ col.dtype = "Utf8"
    /\ 10 * Cardinality(SeqToSet(col.vals)) <= Min(10 * CategoricalCap, height)

CategoricalPass(t) ==
    [i \in 1..Len(t) |->
        IF CategoricalApplies(t[i], Height(t))
        THEN [t[i] EXCEPT !.dtype = "Categorical"]
        ELSE t[i]]

IntTypes == {"Int64", "Int32", "Int16", "Int8"}
FloatTypes == {"Float64", "Float32"}

Fits(col, lo, hi) == AllCells(col, LAMBDA c : IsNull(c) \/ (c[2] >= lo /\ c[2] <= hi))

\* A shrink that stores every numeric column as text.
ShrinkDtype_Text(col) == "Utf8"

\* Series.shrink_dtype(): the narrowest signed integer type that holds every
\* value; a float column becomes Float32.
ShrinkDtype(col) ==
    IF col.dtype \in FloatTypes THEN "Float32"
    ELSE IF Fits(col, -128, 127) THEN "Int8"
    ELSE IF Fits(col, -32768, 32767) THEN "Int16"
    ELSE IF Fits(col, -2147483647 - 1, 2147483647) THEN "Int32"
    ELSE "Int64"

\* Pass 7
ShrinkPass(t) ==
    [i \in 1..Len(t) |->
        IF t[i].dtype \in IntTypes \cup FloatTypes
        THEN [t[i] EXCEPT !.dtype = ShrinkDtype(t[i])]
        ELSE t[i]]

redetermine_types_raises(t) == ParenNegativeRaises(PlainNumericPass(t))

redetermine_types(t) ==
    ShrinkPass(CategoricalPass(DatePass(WholeNumberPass(
        CurrencyPass(ParenNegativePass(PlainNumericPass(t)))))))

df_clean_all_raises(t) ==
    \/ CleanColumnsRaises(t)
    \/ redetermine_types_raises(df_clean_contents(df_clean_columns(t)))

df_clean_all(t) == redetermine_types(df_clean_contents(df_clean_columns(t)))

\* ------------------------------------------------- the cleaning pipeline
\* Values a raw Text cell is drawn from: a whole number, a fraction, a
\* parenthesised negative, a currency amount, a word, a padded null marker,
\* a padded word that holds a marker, and a date.
StrPool ==
    { <<"1">>, <<"1", ".", "5">>, <<"(", "1", ")">>, <<"$", "1">>, <<"x">>,
      <<" ", "*">>, <<"*", "x", " ">>,
      <<"2", "0", "2", "0", "-", "0", "1", "-", "0", "2">> }

CellPool(dtype) ==
    CASE dtype = "Utf8" -> {Null} \cup {S(x) : x \in StrPool}
      [] dtype = "Categorical" ->
            {Null, S(<<"x">>), S(<<"2", "0", "2", "0", "-", "0", "1", "-", "0", "2">>)}
      [] dtype = "Int64" -> {Null, <<"i", 1>>, <<"i", 200>>}
      [] dtype = "Float64" -> {Null, <<"f", 1, 0>>, <<"f", 15, 1>>}
      [] dtype = "Date" -> {Null, <<"d", 2020, 1, 2>>}

Dtypes == {"Utf8", "Categorical", "Int64", "Float64", "Date"}

\* Raw column names: one that is already clean, one with a space, one with a
\* hyphen that sanitises to the same name, and one whose purged punctuation
\* uncovers inner whitespace and that holds a character outside the blacklist.
NamePool ==
    << <<"a">>, <<"a", " ", "b">>, <<"a", "-", "b">>, <<"#", "\t", "c", "~">> >>

\* df.columns of an input table: consecutive names of the pool, from any start.
ColumnNames(n) ==
    { [i \in 1..n |-> NamePool[((k + i - 2) % Len(NamePool)) + 1]] : k \in 1..Len(NamePool) }

\* A column's type and values.
ColumnsOf(h) ==
    UNION { {[dtype |-> d, vals |-> v] : v \in [1..h -> CellPool(d)]} : d \in Dtypes }

\* The table of the columns `cols` under the names `nms`.
Table(nms, cols) ==
    [i \in 1..Len(cols) |->
        [name |-> nms[i], dtype |-> cols[i].dtype, vals |-> cols[i].vals]]

InitClean ==
    /\ \E n \in 0..MaxCols, h \in 0..MaxRows :
          \E nms \in ColumnNames(n), cols \in [1..n -> ColumnsOf(h)] :
              raw = Table(nms, cols)
    /\ df = raw
    /\ post_contents = <<>>
    /\ cpc = "clean_columns"
    /\ nm_in = <<>>
    /\ nm_cur = <<>>
    /\ nm_pc = "idle"
    /\ kdf = <<>>
    /\ n_candidates = 0
    /\ max_key_size = 0
    /\ sample_size = 0
    /\ prefer_patterns = <<>>
    /\ eligible_columns = <<>>
    /\ sample_df = {}
    /\ single_column_candidates = <<>>
    /\ candidates = <<>>
    /\ size = 0
    /\ examined = <<>>
    /\ result = <<>>
    /\ kpc = "idle"
    /\ col_combo = <<>>
    /\ score_patterns = <<>>
    /\ col_idx = 0
    /\ score = 0
    /\ spc = "idle"
    /\ fcall = <<>>
    /\ fsheet = 0
    /\ fresults = <<>>
    /\ fout = <<>>
    /\ fpc = "idle"
    /\ config = <<"none">>
    /\ config_path = <<"none">>
    /\ config_file = <<"missing">>
    /\ ccall = <<>>
    /\ cret = <<>>
    /\ ncalls = 0
    /\ sources = <<>>
    /\ staging = <<"missing">>
    /\ stg_op = "idle"
    /\ stg_pc = "idle"
    /\ stg_idx = 0
    /\ stg_locked = {}
    /\ stg_before = <<"missing">>
    /\ stg_written = {}

\* df = df_clean_columns(df)
CleanColumns ==
    /\ cpc = "clean_columns"
    /\ IF CleanColumnsRaises(df)
       THEN cpc' = "raised" /\ df' = df
       ELSE cpc' = "clean_contents" /\ df' = df_clean_columns(df)
    /\ UNCHANGED <<raw, post_contents>>
    /\ UNCHANGED <<nameVars, keyVars, scoreVars, fileVars, cfgVars, stageVars>>

\* df = df_clean_contents(df)
CleanContents ==
    /\ cpc = "clean_contents"
    /\ df' = df_clean_contents(df)
    /\ post_contents' = df'
    /\ cpc' = "pass1"
    /\ UNCHANGED raw
    /\ UNCHANGED <<nameVars, keyVars, scoreVars, fileVars, cfgVars, stageVars>>

\* "Converting plain numeric strings to floats"
PlainNumeric ==
    /\ cpc = "pass1"
    /\ df' = PlainNumericPass(df)
    /\ cpc' = "pass2"
    /\ UNCHANGED <<raw, post_contents>>
    /\ UNCHANGED <<nameVars, keyVars, scoreVars, fileVars, cfgVars, stageVars>>

\* "Converting paranthesis-wrapped negative values to floats"; the strict cast
\* of a value that does not parse raises out of redetermine_types.
ParenNegative ==
    /\ cpc = "pass2"
    /\ IF ParenNegativeRaises(df)
       THEN cpc' = "raised" /\ df' = df
       ELSE cpc' = "pass3" /\ df' = ParenNegativePass(df)
    /\ UNCHANGED <<raw, post_contents>>
    /\ UNCHANGED <<nameVars, keyVars, scoreVars, fileVars, cfgVars, stageVars>>

\* "Converting currency-formatted values to floats"
Currency ==
    /\ cpc = "pass3"
    /\ df' = CurrencyPass(df)
    /\ cpc' = "pass4"
    /\ UNCHANGED <<raw, post_contents>>
    /\ UNCHANGED <<nameVars, keyVars, scoreVars, fileVars, cfgVars, stageVars>>

\* "Converting whole-number floats to integers"
WholeNumber ==
    /\ cpc = "pass4"
    /\ df' = WholeNumberPass(df)
    /\ cpc' = "pass5"
    /\ UNCHANGED <<raw, post_contents>>
    /\ UNCHANGED <<nameVars, keyVars, scoreVars, fileVars, cfgVars, stageVars>>

\* "Converting date strings to date types"
Date ==
    /\ cpc = "pass5"
    /\ df' = DatePass(df)
    /\ cpc' = "pass6"
    /\ UNCHANGED <<raw, post_contents>>
    /\ UNCHANGED <<nameVars, keyVars, scoreVars, fileVars, cfgVars, stageVars>>

\* "Converting low-cardinality strings to categoricals"
Categorical ==
    /\ cpc = "pass6"
    /\ df' = CategoricalPass(df)
    /\ cpc' = "pass7"
    /\ UNCHANGED <<raw, post_contents>>
    /\ UNCHANGED <<nameVars, keyVars, scoreVars, fileVars, cfgVars, stageVars>>

\* "Shrinking integer and float dtypes for optimal compression"
Shrink ==
    /\ cpc = "pass7"
    /\ df' = ShrinkPass(df)
    /\ cpc' = "done"
    /\ UNCHANGED <<raw, post_contents>>
    /\ UNCHANGED <<nameVars, keyVars, scoreVars, fileVars, cfgVars, stageVars>>

NextClean ==
    \/ CleanColumns
    \/ CleanContents
    \/ PlainNumeric
    \/ ParenNegative
    \/ Currency
    \/ WholeNumber
    \/ Date
    \/ Categorical
    \/ Shrink

\* ------------------------------------------------- the sanitizer on its own
NameAlphabet == {"a", "Z", "7", "_", " ", "-", "\t", "#", ".", "~"}

NameInputs == UNION {[1..n -> NameAlphabet] : n \in 0..MaxNameLen}

InitNames ==
    /\ nm_in \in NameInputs
    /\ nm_cur = nm_in
    /\ nm_pc = "strip"
    /\ raw = <<>>
    /\ df = <<>>
    /\ post_contents = <<>>
    /\ cpc = "idle"
    /\ kdf = <<>>
    /\ n_candidates = 0
    /\ max_key_size = 0
    /\ sample_size = 0
    /\ prefer_patterns = <<>>
    /\ eligible_columns = <<>>
    /\ sample_df = {}
    /\ single_column_candidates = <<>>
    /\ candidates = <<>>
    /\ size = 0
    /\ examined = <<>>
    /\ result = <<>>
    /\ kpc = "idle"
    /\ col_combo = <<>>
    /\ score_patterns = <<>>
    /\ col_idx = 0
    /\ score = 0
    /\ spc = "idle"
    /\ fcall = <<>>
    /\ fsheet = 0
    /\ fresults = <<>>
    /\ fout = <<>>
    /\ fpc = "idle"
    /\ config = <<"none">>
    /\ config_path = <<"none">>
    /\ config_file = <<"missing">>
    /\ ccall = <<>>
    /\ cret = <<>>
    /\ ncalls = 0
    /\ sources = <<>>
    /\ staging = <<"missing">>
    /\ stg_op = "idle"
    /\ stg_pc = "idle"
    /\ stg_idx = 0
    /\ stg_locked = {}
    /\ stg_before = <<"missing">>
    /\ stg_written = {}

\* sanitized = col_name.strip()
NameStrip ==
    /\ nm_pc = "strip"
    /\ nm_cur' = Strip(nm_cur)
    /\ nm_pc' = "replace"
    /\ UNCHANGED nm_in
    /\ UNCHANGED <<cleanVars, keyVars, scoreVars, fileVars, cfgVars, stageVars>>

NameReplace ==
    /\ nm_pc = "replace"
    /\ nm_cur' = ReplaceSpaceChars(nm_cur, 1)
    /\ nm_pc' = "purge"
    /\ UNCHANGED nm_in
    /\ UNCHANGED <<cleanVars, keyVars, scoreVars, fileVars, cfgVars, stageVars>>

NamePurge ==
    /\ nm_pc = "purge"
    /\ nm_cur' = PurgeGeneralChars(nm_cur, 1)
    /\ nm_pc' = "done"
    /\ UNCHANGED nm_in
    /\ UNCHANGED <<cleanVars, keyVars, scoreVars, fileVars, cfgVars, stageVars>>

NextNames ==
    \/ NameStrip
    \/ NameReplace
    \/ NamePurge

\* ------------------------------------------------ calculate_preference_score
UpperLetters == <<"A", "B", "C", "D", "E", "F", "G", "H", "I", "J", "K", "L", "M",
                  "N", "O", "P", "Q", "R", "S", "T", "U", "V", "W", "X", "Y", "Z">>
LowerLetters == <<"a", "b", "c", "d", "e", "f", "g", "h", "i", "j", "k", "l", "m",
                  "n", "o", "p", "q", "r", "s", "t", "u", "v", "w", "x", "y", "z">>

LowerOf ==
    [c \in SeqToSet(UpperLetters) |->
        LowerLetters[CHOOSE i \in 1..Len(UpperLetters) : UpperLetters[i] = c]]

LowerChar(c) == IF c \in DOMAIN LowerOf THEN LowerOf[c] ELSE c

\* str.lower()
Lower(s) == [i \in 1..Len(s) |-> LowerChar(s[i])]

\* pattern in col_lower
Contains(s, p) ==
    \E i \in 0..(Len(s) - Len(p)) : \A j \in 1..Len(p) : s[i + j] = p[j]

DEFAULT_PATTERNS ==
    << <<"i", "d">>, <<"k", "e", "y">>, <<"n", "u", "m", "b", "e", "r">>,
       <<"c", "o", "d", "e">>, <<"i", "n", "v", "o", "i", "c", "e">>,
       <<"d", "o", "c", "u", "m", "e", "n", "t">> >>

PatternBonus == 10
ShortNameBase == 20
Max(a, b) == IF a >= b THEN a ELSE b

\* A pattern loop without its break: every matching pattern adds the bonus.
RECURSIVE PatternHit_NoBreak(_, _)
PatternHit_NoBreak(col_lower, patterns) ==
    IF patterns = <<>> THEN 0
    ELSE (IF Contains(col_lower, Head(patterns)) THEN PatternBonus ELSE 0)
         + PatternHit_NoBreak(col_lower, Tail(patterns))

\* for pattern in prefer_patterns: if pattern in col_lower: score += 10; break
RECURSIVE PatternHit(_, _)
PatternHit(col_lower, patterns) ==
    IF patterns = <<>> THEN 0
    ELSE IF Contains(col_lower, Head(patterns)) THEN PatternBonus
    ELSE PatternHit(col_lower, Tail(patterns))

ColumnScore(col, patterns) ==
    PatternHit(Lower(col), patterns) + Max(0, ShortNameBase - Len(col))

RECURSIVE calculate_preference_score(_, _)
calculate_preference_score(cols, patterns) ==
    IF cols = <<>> THEN 0
    ELSE ColumnScore(Head(cols), patterns)
         + calculate_preference_score(Tail(cols), patterns)

\* ---------------------------------------------------- _filter_decimal_columns
HeadLimit == 1000

NonNullVals(col) == SelectSeq(col.vals, NotNull)

\* sample_values = df[col].drop_nulls().head(1000).to_list()
SampleValues(col) ==
    SubSeq(NonNullVals(col), 1, Min(HeadLimit, Len(NonNullVals(col))))

IsEligible(col) ==
    IF col.dtype \notin IntTypes \cup FloatTypes \cup {"Decimal"} THEN TRUE
    ELSE IF col.dtype \in FloatTypes
         THEN /\ SampleValues(col) # <<>>
              /\ \A k \in 1..Len(SampleValues(col)) : SampleValues(col)[k][3] = 0
    ELSE col.dtype \in IntTypes

filter_decimal_columns(t) == Names(SelectSeq(t, IsEligible))

\* ------------------------------------------------ find_ranked_composite_keys
ColByName(t, nm) == t[CHOOSE i \in 1..Len(t) : t[i].name = nm]

\* The rows `rows` of the table projected onto the columns `cols`.
Project(t, rows, cols) ==
    {[k \in 1..Len(cols) |-> ColByName(t, cols[k]).vals[r]] : r \in rows}

\* frame.select(cols).unique().height == frame.height
UniqueOn(t, rows, cols) == Cardinality(Project(t, rows, cols)) = Cardinality(rows)

AllRows(t) == 1..Height(t)

\* A check that trusts the sample and skips the full-table confirmation.
Qualifies_SampleOnly(t, sample, cols) == UniqueOn(t, sample, cols)

\* The sample check first, the full-table check only when it passes.
Qualifies(t, sample, cols) == UniqueOn(t, sample, cols) /\ UniqueOn(t, AllRows(t), cols)

\* itertools.combinations(seq, k), in its order.
RECURSIVE Combinations(_, _)
Combinations(seq, k) ==
    IF k = 0 THEN << <<>> >>
    ELSE IF Len(seq) < k THEN <<>>
    ELSE LET with == Combinations(Tail(seq), k - 1)
         IN  [i \in 1..Len(with) |-> <<Head(seq)>> \o with[i]]
             \o Combinations(Tail(seq), k)

\* list.sort(key=lambda x: -x[2]): stable, by score descending.
\* A sort by score ascending (the key's minus sign dropped).
RECURSIVE InsertByScore_Ascending(_, _)
InsertByScore_Ascending(sorted, x) ==
    IF sorted = <<>> THEN <<x>>
    ELSE IF Head(sorted)[3] <= x[3]
         THEN <<Head(sorted)>> \o InsertByScore_Ascending(Tail(sorted), x)
         ELSE <<x>> \o sorted

RECURSIVE InsertByScore(_, _)
InsertByScore(sorted, x) ==
    IF sorted = <<>> THEN <<x>>
    ELSE IF Head(sorted)[3] >= x[3]
         THEN <<Head(sorted)>> \o InsertByScore(Tail(sorted), x)
         ELSE <<x>> \o sorted

\* The sort left out: the candidates stay in enumeration order.
SortByScore_Unsorted(seq) == seq

RECURSIVE SortByScore(_)
SortByScore(seq) ==
    IF seq = <<>> THEN <<>>
    ELSE InsertByScore(SortByScore(SubSeq(seq, 1, Len(seq) - 1)), seq[Len(seq)])

Patterns == IF prefer_patterns = <<>> THEN DEFAULT_PATTERNS ELSE prefer_patterns

Candidate(cols) == <<cols, Len(cols), calculate_preference_score(cols, Patterns)>>

\* The qualifying combinations among `combos`, in order, each with its size
\* and score.
QualifyingOf(combos) ==
    LET ok == SelectSeq(combos, LAMBDA c : Qualifies(kdf, sample_df, c))
    IN  [i \in 1..Len(ok) |-> Candidate(ok[i])]

\* range(2, min(max_key_size + 1, len(eligible_columns) + 1)) stops before this.
SizeLimit == Min(max_key_size + 1, Len(eligible_columns) + 1)

\* Columns a key-finder table is built from: a name, its type and the values
\* its cells are drawn from.
LongName ==
    <<"c", "u", "s", "t", "o", "m", "e", "r", "_", "r", "e", "f", "e", "r", "e",
      "n", "c", "e", "_", "n", "o">>

KeyColumnPool ==
    { [name |-> <<"I", "D">>, dtype |-> "Int64", first |-> <<"i", 1>>,
       cells |-> {<<"i", 1>>, <<"i", 2>>}],
      [name |-> <<"q", "t", "y">>, dtype |-> "Float64", first |-> <<"f", 1, 0>>,
       cells |-> {<<"f", 1, 0>>, <<"f", 2, 0>>, <<"f", 15, 1>>}],
      [name |-> LongName, dtype |-> "Utf8", first |-> S(<<"x">>),
       cells |-> {S(<<"x">>), S(<<"y">>)}] }

\* Which rows of a column agree decides every uniqueness test, so the first
\* row always holds the column's first value.
KeyColumnsOf(h) ==
    UNION { {[name |-> p.name, dtype |-> p.dtype, vals |-> v] :
                v \in {w \in [1..h -> p.cells] : h >= 1 => w[1] = p.first}} :
              p \in KeyColumnPool }

KeyTables ==
    UNION { { t \in [1..n -> KeyColumnsOf(h)] : Injective(Names(t)) } :
              n \in 0..MaxKeyCols, h \in 0..MaxKeyRows }

\* Tables one row taller than the filter's head(1000): a single Float column
\* of distinct values, all whole but the one in row `bad`.
LargeKeyTables ==
    { << [name |-> <<"q", "t", "y">>, dtype |-> "Float64",
          vals |-> [r \in 1..(HeadLimit + 1) |->
                       IF r = bad THEN <<"f", 10 * r + 5, 1>> ELSE <<"f", r, 0>>]] >> :
        bad \in {HeadLimit, HeadLimit + 1} }

\* sample_size: int = 50000
DefaultSampleSize == 50000

\* The row sets df.sample(n) can return: n rows drawn without replacement.
Samples(t, n) ==
    IF n >= Height(t) THEN {AllRows(t)}
    ELSE {rows \in SUBSET AllRows(t) : Cardinality(rows) = n}

\* prefer_patterns as the caller passes it: <<>> is None (the default list).
PatternInputs == { <<>> }

InitKeys ==
    /\ kdf \in KeyTables \cup LargeKeyTables
    /\ n_candidates \in 0..MaxCandidates
    /\ max_key_size \in 0..MaxKeySize
    /\ sample_size \in IF kdf \in LargeKeyTables
                       THEN {DefaultSampleSize} ELSE {1, MaxKeyRows}
    /\ prefer_patterns \in PatternInputs
    /\ eligible_columns = <<>>
    /\ sample_df = {}
    /\ single_column_candidates = <<>>
    /\ candidates = <<>>
    /\ size = 0
    /\ examined = <<>>
    /\ result = <<>>
    /\ kpc = "filter"
    /\ raw = <<>>
    /\ df = <<>>
    /\ post_contents = <<>>
    /\ cpc = "idle"
    /\ nm_in = <<>>
    /\ nm_cur = <<>>
    /\ nm_pc = "idle"
    /\ col_combo = <<>>
    /\ score_patterns = <<>>
    /\ col_idx = 0
    /\ score = 0
    /\ spc = "idle"
    /\ fcall = <<>>
    /\ fsheet = 0
    /\ fresults = <<>>
    /\ fout = <<>>
    /\ fpc = "idle"
    /\ config = <<"none">>
    /\ config_path = <<"none">>
    /\ config_file = <<"missing">>
    /\ ccall = <<>>
    /\ cret = <<>>
    /\ ncalls = 0
    /\ sources = <<>>
    /\ staging = <<"missing">>
    /\ stg_op = "idle"
    /\ stg_pc = "idle"
    /\ stg_idx = 0
    /\ stg_locked = {}
    /\ stg_before = <<"missing">>
    /\ stg_written = {}

keyInputs == <<kdf, n_candidates, max_key_size, sample_size, prefer_patterns>>

\* eligible_columns = _filter_decimal_columns(df, columns); return [] if none
FilterColumns ==
    /\ kpc = "filter"
    /\ eligible_columns' = filter_decimal_columns(kdf)
    /\ kpc' = IF eligible_columns' = <<>> THEN "done" ELSE "sample"
    /\ UNCHANGED <<keyInputs, sample_df, single_column_candidates, candidates,
                   size, examined, result>>
    /\ UNCHANGED <<cleanVars, nameVars, scoreVars, fileVars, cfgVars, stageVars>>

\* sample_df = df.sample(min(sample_size, total_rows)): rows drawn without
\* replacement.
DrawSample ==
    /\ kpc = "sample"
    /\ \E rows \in Samples(kdf, Min(sample_size, Height(kdf))) : sample_df' = rows
    /\ kpc' = "single"
    /\ UNCHANGED <<keyInputs, eligible_columns, single_column_candidates,
                   candidates, size, examined, result>>
    /\ UNCHANGED <<cleanVars, nameVars, scoreVars, fileVars, cfgVars, stageVars>>

\* The loop over the single columns; a hit returns the best one at once.
CheckSingleColumns ==
    /\ kpc = "single"
    /\ single_column_candidates' =
          QualifyingOf([i \in 1..Len(eligible_columns) |-> <<eligible_columns[i]>>])
    /\ IF single_column_candidates' # <<>>
       THEN /\ result' = <<SortByScore(single_column_candidates')[1][1]>>
            /\ kpc' = "done"
            /\ size' = size
       ELSE /\ result' = result
            /\ kpc' = IF 2 < SizeLimit THEN "multi" ELSE "return"
            /\ size' = 2
    /\ UNCHANGED <<keyInputs, eligible_columns, sample_df, candidates, examined>>
    /\ UNCHANGED <<cleanVars, nameVars, scoreVars, fileVars, cfgVars, stageVars>>

\* One round of the loop over key sizes: every combination of this size, then
\* the sort, the extend and the stop test; the loop ends on the break or when
\* the range is exhausted.
CheckSize ==
    /\ kpc = "multi"
    /\ LET size_candidates == QualifyingOf(Combinations(eligible_columns, size))
       IN  /\ candidates' = candidates \o SortByScore(size_candidates)
           /\ IF size_candidates # <<>> /\ Len(candidates') >= n_candidates
              THEN kpc' = "return" /\ size' = size
              ELSE /\ kpc' = IF size + 1 < SizeLimit THEN "multi" ELSE "return"
                   /\ size' = size + 1
    /\ examined' = Append(examined, size)
    /\ UNCHANGED <<keyInputs, eligible_columns, sample_df, single_column_candidates,
                   result>>
    /\ UNCHANGED <<cleanVars, nameVars, scoreVars, fileVars, cfgVars, stageVars>>

\* return [combo for combo, size, score in candidates[:n_candidates]]
ReturnCandidates ==
    /\ kpc = "return"
    /\ result' = [i \in 1..Min(n_candidates, Len(candidates)) |-> candidates[i][1]]
    /\ kpc' = "done"
    /\ UNCHANGED <<keyInputs, eligible_columns, sample_df, single_column_candidates,
                   candidates, size, examined>>
    /\ UNCHANGED <<cleanVars, nameVars, scoreVars, fileVars, cfgVars, stageVars>>

NextKeys ==
    \/ FilterColumns
    \/ DrawSample
    \/ CheckSingleColumns
    \/ CheckSize
    \/ ReturnCandidates

\* ------------------------------------------- the scoring function on its own
\* Column names handed to calculate_preference_score: with an upper-case
\* pattern, without a pattern, longer than 20 characters, with two patterns,
\* and with a capitalised pattern.
ScoreNames ==
    { <<"I", "D">>, <<"q", "t", "y">>, LongName, <<"k", "e", "y", "_", "i", "d">>,
      <<"C", "o", "d", "e">> }

\* Longest col_combo scored.
MaxComboLen == 2

\* prefer_patterns as find_ranked_composite_keys passes it on: the default
\* list, or a caller's list, in lower case or in upper case.
ScorePatternInputs ==
    { DEFAULT_PATTERNS, << <<"q", "t", "y">>, <<"t", "y">>, <<"o", "d">> >>,
      << <<"I", "D">> >> }

InitScore ==
    /\ col_combo \in UNION {[1..n -> ScoreNames] : n \in 0..MaxComboLen}
    /\ score_patterns \in ScorePatternInputs
    /\ col_idx = 1
    /\ score = 0
    /\ spc = "loop"
    /\ raw = <<>>
    /\ df = <<>>
    /\ post_contents = <<>>
    /\ cpc = "idle"
    /\ nm_in = <<>>
    /\ nm_cur = <<>>
    /\ nm_pc = "idle"
    /\ kdf = <<>>
    /\ n_candidates = 0
    /\ max_key_size = 0
    /\ sample_size = 0
    /\ prefer_patterns = <<>>
    /\ eligible_columns = <<>>
    /\ sample_df = {}
    /\ single_column_candidates = <<>>
    /\ candidates = <<>>
    /\ size = 0
    /\ examined = <<>>
    /\ result = <<>>
    /\ kpc = "idle"
    /\ fcall = <<>>
    /\ fsheet = 0
    /\ fresults = <<>>
    /\ fout = <<>>
    /\ fpc = "idle"
    /\ config = <<"none">>
    /\ config_path = <<"none">>
    /\ config_file = <<"missing">>
    /\ ccall = <<>>
    /\ cret = <<>>
    /\ ncalls = 0
    /\ sources = <<>>
    /\ staging = <<"missing">>
    /\ stg_op = "idle"
    /\ stg_pc = "idle"
    /\ stg_idx = 0
    /\ stg_locked = {}
    /\ stg_before = <<"missing">>
    /\ stg_written = {}

\* One round of `for col in col_combo`.
ScoreColumn ==
    /\ spc = "loop"
    /\ col_idx <= Len(col_combo)
    /\ score' = score + ColumnScore(col_combo[col_idx], score_patterns)
    /\ col_idx' = col_idx + 1
    /\ UNCHANGED <<col_combo, score_patterns, spc>>
    /\ UNCHANGED <<cleanVars, nameVars, keyVars, fileVars, cfgVars, stageVars>>

\* return score
ScoreReturn ==
    /\ spc = "loop"
    /\ col_idx > Len(col_combo)
    /\ spc' = "done"
    /\ UNCHANGED <<col_combo, score_patterns, col_idx, score>>
    /\ UNCHANGED <<cleanVars, nameVars, keyVars, fileVars, cfgVars, stageVars>>

NextScore ==
    \/ ScoreColumn
    \/ ScoreReturn

\* ------------------------------------------------------------ lib/files.py
\* Path(filepath).suffix of the files handed in.
Extensions ==
    { <<".", "x", "l", "s", "x">>, <<".", "x", "l", "s">>, <<".", "c", "s", "v">>,
      <<".", "C", "S", "V">>, <<".", "p", "a", "r", "q", "u", "e", "t">>,
      <<".", "j", "s", "o", "n">> }

ExcelExtensions == { <<".", "x", "l", "s", "x">>, <<".", "x", "l", "s">> }
CsvExtension == <<".", "c", "s", "v">>
ParquetExtension == <<".", "p", "a", "r", "q", "u", "e", "t">>

\* Frames a file part reads as: one Text column of a number, and two columns
\* whose names sanitise to one name.
FramePool ==
    { << [name |-> <<"a">>, dtype |-> "Utf8", vals |-> <<S(<<"1">>)>>] >>,
      << [name |-> <<"a", " ", "b">>, dtype |-> "Utf8", vals |-> <<S(<<"x">>)>>],
         [name |-> <<"a", "-", "b">>, dtype |-> "Utf8", vals |-> <<S(<<"x">>)>>] >> }

\* A part of a file (a sheet of a workbook, or the whole of a CSV or Parquet
\* file): reading it raises, or gives a frame, possibly one without columns.
Parts ==
    {[reads |-> FALSE, frame |-> <<>>]}
    \cup {[reads |-> TRUE, frame |-> f] : f \in FramePool \cup {<<>>}}

\* Most sheets of a workbook.
MaxSheets == 2

Contents == UNION {[1..n -> Parts] : n \in 0..MaxSheets}

\* What the functions return: a list of (frame, name) pairs, a frame, or None.
ListOf(items) == [kind |-> "list", value |-> items]
FrameOf(frame) == [kind |-> "frame", value |-> frame]
NoneValue == [kind |-> "none", value |-> <<>>]
Pending == [kind |-> "pending", value |-> <<>>]

\* A call: extract_dataframes(filepath) on a file, or
\* read_dataframe(file_type, filename).
Calls ==
    {[op |-> "extract", locked |-> l, file_type |-> "Source", exists |-> TRUE,
      extension |-> e, opens |-> o, content |-> c] :
        l \in BOOLEAN, e \in Extensions, o \in BOOLEAN, c \in Contents}
    \cup
    {[op |-> "read", locked |-> FALSE, file_type |-> t, exists |-> x,
      extension |-> e, opens |-> TRUE, content |-> c] :
        t \in {"Staging", "Output", "Source"}, x \in BOOLEAN, e \in Extensions,
        c \in [1..1 -> Parts]}

\* A workbook holds any number of sheets; a CSV or Parquet file is one part,
\* and opening and parsing it is one read.
WellFormed(call) ==
    Lower(call.extension) \notin ExcelExtensions
    => Len(call.content) = 1 /\ call.opens

InitFiles ==
    /\ fcall \in {c \in Calls : WellFormed(c)}
    /\ fsheet = 1
    /\ fresults = <<>>
    /\ fout = Pending
    /\ fpc = "start"
    /\ raw = <<>>
    /\ df = <<>>
    /\ post_contents = <<>>
    /\ cpc = "idle"
    /\ nm_in = <<>>
    /\ nm_cur = <<>>
    /\ nm_pc = "idle"
    /\ kdf = <<>>
    /\ n_candidates = 0
    /\ max_key_size = 0
    /\ sample_size = 0
    /\ prefer_patterns = <<>>
    /\ eligible_columns = <<>>
    /\ sample_df = {}
    /\ single_column_candidates = <<>>
    /\ candidates = <<>>
    /\ size = 0
    /\ examined = <<>>
    /\ result = <<>>
    /\ kpc = "idle"
    /\ col_combo = <<>>
    /\ score_patterns = <<>>
    /\ col_idx = 0
    /\ score = 0
    /\ spc = "idle"
    /\ config = <<"none">>
    /\ config_path = <<"none">>
    /\ config_file = <<"missing">>
    /\ ccall = <<>>
    /\ cret = <<>>
    /\ ncalls = 0
    /\ sources = <<>>
    /\ staging = <<"missing">>
    /\ stg_op = "idle"
    /\ stg_pc = "idle"
    /\ stg_idx = 0
    /\ stg_locked = {}
    /\ stg_before = <<"missing">>
    /\ stg_written = {}

\* results.append((df, name)) when the read succeeds; the except clause prints
\* and goes on.
ReadPart(results, k) ==
    IF fcall.content[k].reads
    THEN Append(results, [frame |-> fcall.content[k].frame, name |-> k])
    ELSE results

\* extract_dataframes up to the sheet loop or the final filter.
ExtractStart ==
    /\ fpc = "start"
    /\ fcall.op = "extract"
    /\ IF fcall.locked
       THEN fout' = ListOf(<<>>) /\ fpc' = "done" /\ fresults' = fresults
       ELSE IF Lower(fcall.extension) \in ExcelExtensions
       THEN IF ~fcall.opens
            THEN fout' = ListOf(<<>>) /\ fpc' = "done" /\ fresults' = fresults
            ELSE /\ fout' = fout
                 /\ fresults' = fresults
                 /\ fpc' = IF fcall.content = <<>> THEN "clean" ELSE "sheets"
       ELSE IF Lower(fcall.extension) \in {CsvExtension, ParquetExtension}
       THEN fout' = fout /\ fpc' = "clean" /\ fresults' = ReadPart(fresults, 1)
       ELSE fout' = fout /\ fpc' = "clean" /\ fresults' = fresults
    /\ UNCHANGED <<fcall, fsheet>>
    /\ UNCHANGED <<cleanVars, nameVars, keyVars, scoreVars, cfgVars, stageVars>>

\* One round of `for sheet in sheets`.
ExtractSheet ==
    /\ fpc = "sheets"
    /\ fresults' = ReadPart(fresults, fsheet)
    /\ fsheet' = fsheet + 1
    /\ fpc' = IF fsheet = Len(fcall.content) THEN "clean" ELSE "sheets"
    /\ UNCHANGED <<fcall, fout>>
    /\ UNCHANGED <<cleanVars, nameVars, keyVars, scoreVars, cfgVars, stageVars>>

\* results = [(df_clean_all(df), name) for df, name in results
\*            if df is not None and df.shape[1] > 0]; return results
ExtractClean ==
    /\ fpc = "clean"
    /\ LET kept == SelectSeq(fresults, LAMBDA x : Len(x.frame) > 0)
       IN  IF \E k \in 1..Len(kept) : df_clean_all_raises(kept[k].frame)
           THEN fpc' = "raised" /\ fout' = fout
           ELSE /\ fpc' = "done"
                /\ fout' = ListOf([k \in 1..Len(kept) |->
                              [frame |-> df_clean_all(kept[k].frame),
                               name |-> kept[k].name]])
    /\ UNCHANGED <<fcall, fsheet, fresults>>
    /\ UNCHANGED <<cleanVars, nameVars, keyVars, scoreVars, cfgVars, stageVars>>

\* read_dataframe: every exception inside the try gives None.
ReadDataframe ==
    /\ fpc = "start"
    /\ fcall.op = "read"
    /\ fout' =
          IF fcall.file_type \notin {"Staging", "Output"} THEN NoneValue
          ELSE IF ~fcall.exists THEN NoneValue
          ELSE IF Lower(fcall.extension) \in {ParquetExtension, CsvExtension}
               THEN IF fcall.content[1].reads
                    THEN FrameOf(fcall.content[1].frame)
                    ELSE NoneValue
          ELSE NoneValue
    /\ fpc' = "done"
    /\ UNCHANGED <<fcall, fsheet, fresults>>
    /\ UNCHANGED <<cleanVars, nameVars, keyVars, scoreVars, cfgVars, stageVars>>

NextFiles ==
    \/ ExtractStart
    \/ ExtractSheet
    \/ ExtractClean
    \/ ReadDataframe

\* ------------------------------------------------------------ app_config.py
\* A Python value is a tagged tuple: <<"none">>, <<"str", chars>>,
\* <<"int", n>>, <<"float", t>> (the float t / 10), <<"bool", b>>,
\* <<"list", items>> or <<"dict", pairs>>, the pairs <<key, value>> in
\* insertion order.
PyNone == <<"none">>
PyStr(chars) == <<"str", chars>>
PyInt(n) == <<"int", n>>
PyFloat(t) == <<"float", t>>
PyBool(b) == <<"bool", b>>
PyList(items) == <<"list", items>>
PyDict(pairs) == <<"dict", pairs>>

\* What a call does: it returns a value or raises an exception.
Return(value) == <<"return", value>>
Raise(exception) == <<"raise", exception>>
Returned(outcome) == outcome[1] = "return"

\* k in d, d[k] and d[k] = v of a dict.
HasKey(pairs, k) == \E i \in 1..Len(pairs) : pairs[i][1] = k
Lookup(pairs, k) == pairs[CHOOSE i \in 1..Len(pairs) : pairs[i][1] = k][2]
Put(pairs, k, v) ==
    IF HasKey(pairs, k)
    THEN [i \in 1..Len(pairs) |-> IF pairs[i][1] = k THEN <<k, v>> ELSE pairs[i]]
    ELSE Append(pairs, <<k, v>>)

\* key_str.split('.')
RECURSIVE SplitFrom(_, _)
SplitFrom(s, cur) ==
    IF s = <<>> THEN <<cur>>
    ELSE IF Head(s) = "." THEN <<cur>> \o SplitFrom(Tail(s), <<>>)
    ELSE SplitFrom(Tail(s), Append(cur, Head(s)))

Split(key_str) == SplitFrom(key_str, <<>>)

\* str(n) of an integer.
RECURSIVE Decimal(_)
Decimal(n) ==
    IF n < 0 THEN <<"-">> \o Decimal(0 - n)
    ELSE IF n < 10 THEN <<DigitChars[n + 1]>>
    ELSE Decimal(n \div 10) \o <<DigitChars[(n % 10) + 1]>>

\* repr(x) of a float on the grid of tenths.
FloatText(t) ==
    IF t < 0 THEN <<"-">> \o Decimal((0 - t) \div 10) \o <<".">> \o Decimal((0 - t) % 10)
    ELSE Decimal(t \div 10) \o <<".">> \o Decimal(t % 10)

RECURSIVE JoinComma(_)
JoinComma(texts) ==
    IF texts = <<>> THEN <<>>
    ELSE IF Len(texts) = 1 THEN texts[1]
    ELSE texts[1] \o <<",", " ">> \o JoinComma(Tail(texts))

\* str(value), and repr(value) when quoted: a string inside a list or a dict
\* prints in quotes.
RECURSIVE Text(_, _)
Text(value, quoted) ==
    CASE value[1] = "none" -> <<"N", "o", "n", "e">>
      [] value[1] = "str" ->
            IF quoted THEN <<"'">> \o value[2] \o <<"'">> ELSE value[2]
      [] value[1] = "int" -> Decimal(value[2])
      [] value[1] = "float" -> FloatText(value[2])
      [] value[1] = "bool" ->
            IF value[2] THEN <<"T", "r", "u", "e">> ELSE <<"F", "a", "l", "s", "e">>
      [] value[1] = "list" ->
            <<"[">> \o JoinComma([i \in 1..Len(value[2]) |-> Text(value[2][i], TRUE)])
                    \o <<"]">>
      [] value[1] = "dict" ->
            <<"{">> \o JoinComma([i \in 1..Len(value[2]) |->
                           <<"'">> \o value[2][i][1] \o <<"'", ":", " ">>
                               \o Text(value[2][i][2], TRUE)])
                    \o <<"}">>

\* str(value)
StrOf(value) == Return(PyStr(Text(value, FALSE)))

\* An optional sign and digits.
IsIntText(s) ==
    LET body == IF s # <<>> /\ Head(s) \in {"-", "+"} THEN Tail(s) ELSE s
    IN  body # <<>> /\ SeqToSet(body) \subseteq Digits

IntTextVal(s) ==
    IF Head(s) = "-" THEN 0 - DigitsVal(Tail(s))
    ELSE IF Head(s) = "+" THEN DigitsVal(Tail(s))
    ELSE DigitsVal(s)

\* An optional sign, digits, a point and one digit: a float on the grid.
IsFloatText(s) ==
    LET body == IF s # <<>> /\ Head(s) \in {"-", "+"} THEN Tail(s) ELSE s
    IN  /\ Len(body) >= 3
        /\ body[Len(body) - 1] = "."
        /\ SeqToSet(SubSeq(body, 1, Len(body) - 2)) \subseteq Digits
        /\ body[Len(body)] \in Digits

FloatTextVal(s) ==
    LET neg == Head(s) = "-"
        body == IF Head(s) \in {"-", "+"} THEN Tail(s) ELSE s
        mag == DigitsVal(SubSeq(body, 1, Len(body) - 2)) * 10 + DigitVal(body[Len(body)])
    IN  IF neg THEN 0 - mag ELSE mag

\* Truncation towards zero.
Trunc(t) == IF t < 0 THEN 0 - ((0 - t) \div 10) ELSE t \div 10

\* int(value): a string is stripped and parsed, a float truncated; None, a
\* list and a dict raise TypeError.
IntOf(value) ==
    CASE value[1] = "int" -> Return(value)
      [] value[1] = "bool" -> Return(PyInt(IF value[2] THEN 1 ELSE 0))
      [] value[1] = "float" -> Return(PyInt(Trunc(value[2])))
      [] value[1] = "str" ->
            IF IsIntText(Strip(value[2])) THEN Return(PyInt(IntTextVal(Strip(value[2]))))
            ELSE Raise("ValueError")
      [] OTHER -> Raise("TypeError")

\* float(value)
FloatOf(value) ==
    CASE value[1] = "float" -> Return(value)
      [] value[1] = "int" -> Return(PyFloat(value[2] * 10))
      [] value[1] = "bool" -> Return(PyFloat(IF value[2] THEN 10 ELSE 0))
      [] value[1] = "str" ->
            IF IsIntText(Strip(value[2]))
            THEN Return(PyFloat(IntTextVal(Strip(value[2])) * 10))
            ELSE IF IsFloatText(Strip(value[2]))
            THEN Return(PyFloat(FloatTextVal(Strip(value[2]))))
            ELSE Raise("ValueError")
      [] OTHER -> Raise("TypeError")

\* bool(value)
Truthy(value) ==
    CASE value[1] = "none" -> FALSE
      [] value[1] = "bool" -> value[2]
      [] value[1] \in {"int", "float"} -> value[2] # 0
      [] OTHER -> value[2] # <<>>

\* ---- yaml.safe_dump / yaml.safe_load
\* A YAML node is a scalar, plain or quoted, a sequence of nodes or a mapping
\* of pairs <<key, node>>; the keys of the mappings are plain words.
YamlNulls == { <<>>, <<"~">>, <<"n", "u", "l", "l">>, <<"N", "u", "l", "l">>,
               <<"N", "U", "L", "L">> }
YamlTrues == { <<"t", "r", "u", "e">>, <<"T", "r", "u", "e">>, <<"T", "R", "U", "E">>,
               <<"y", "e", "s">>, <<"Y", "e", "s">>, <<"Y", "E", "S">>,
               <<"o", "n">>, <<"O", "n">>, <<"O", "N">> }
YamlFalses == { <<"f", "a", "l", "s", "e">>, <<"F", "a", "l", "s", "e">>,
                <<"F", "A", "L", "S", "E">>, <<"n", "o">>, <<"N", "o">>, <<"N", "O">>,
                <<"o", "f", "f">>, <<"O", "f", "f">>, <<"O", "F", "F">> }

\* The value the resolver gives a plain scalar.
ResolvePlain(text) ==
    IF text \in YamlNulls THEN PyNone
    ELSE IF text \in YamlTrues THEN PyBool(TRUE)
    ELSE IF text \in YamlFalses THEN PyBool(FALSE)
    ELSE IF IsIntText(text) THEN PyInt(IntTextVal(text))
    ELSE IF IsFloatText(text) THEN PyFloat(FloatTextVal(text))
    ELSE PyStr(text)

\* The representer writes a string plain only when it reads back as that
\* string; every other string is written in quotes.
DumpStr_Plain(chars) == <<"plain", chars>>

DumpStr(chars) ==
    IF ResolvePlain(chars) = PyStr(chars) /\ Strip(chars) = chars
    THEN <<"plain", chars>>
    ELSE <<"quoted", chars>>

RECURSIVE Dump(_)
Dump(value) ==
    CASE value[1] = "none" -> <<"plain", <<"n", "u", "l", "l">>>>
      [] value[1] = "str" -> DumpStr(value[2])
      [] value[1] = "int" -> <<"plain", Decimal(value[2])>>
      [] value[1] = "float" -> <<"plain", FloatText(value[2])>>
      [] value[1] = "bool" ->
            <<"plain", IF value[2] THEN <<"t", "r", "u", "e">>
                       ELSE <<"f", "a", "l", "s", "e">>>>
      [] value[1] = "list" ->
            <<"seq", [i \in 1..Len(value[2]) |-> Dump(value[2][i])]>>
      [] value[1] = "dict" ->
            <<"map", [i \in 1..Len(value[2]) |->
                        <<value[2][i][1], Dump(value[2][i][2])>>]>>

RECURSIVE Load(_)
Load(node) ==
    CASE node[1] = "plain" -> ResolvePlain(node[2])
      [] node[1] = "quoted" -> PyStr(node[2])
      [] node[1] = "seq" -> PyList([i \in 1..Len(node[2]) |-> Load(node[2][i])])
      [] node[1] = "map" ->
            PyDict([i \in 1..Len(node[2]) |-> <<node[2][i][1], Load(node[2][i][2])>>])

\* The file on disk: missing, not YAML, empty, or one document.
\* yaml.safe_dump(data, f, default_flow_style=False, sort_keys=False)
safe_dump(data) == <<"doc", Dump(data)>>

\* open(path, 'r') and yaml.safe_load(f): an empty file loads as None.
safe_load(file) ==
    CASE file[1] = "missing" -> Raise("FileNotFoundError")
      [] file[1] = "malformed" -> Raise("YAMLError")
      [] file[1] = "empty" -> Return(PyNone)
      [] file[1] = "doc" -> Return(Load(file[2]))

\* ---- the module's functions, on the value cfg of _config
_ensure_initialized_Never(cfg) == Return(PyNone)

_ensure_initialized(cfg) ==
    IF cfg = PyNone THEN Raise("RuntimeError") ELSE Return(PyNone)

\* for k in keys: if value is None: break; value = value[k], with KeyError and
\* TypeError giving None: only a dict has string keys.
RECURSIVE Walk(_, _)
Walk(value, keys) ==
    IF keys = <<>> \/ value[1] = "none" THEN value
    ELSE IF value[1] = "dict" /\ HasKey(value[2], Head(keys))
    THEN Walk(Lookup(value[2], Head(keys)), Tail(keys))
    ELSE PyNone

_get(cfg, key, default) ==
    IF ~Returned(_ensure_initialized(cfg)) THEN _ensure_initialized(cfg)
    ELSE LET value == Walk(cfg, Split(key))
         IN  IF value = PyNone
             THEN IF default = PyNone THEN Raise("KeyError") ELSE Return(default)
             ELSE Return(value)

RECURSIVE _set_nested_value(_, _, _)
_set_nested_value(data, keys, value) ==
    IF Len(keys) = 1 THEN PyDict(Put(data[2], keys[1], value))
    ELSE LET current ==
                 IF HasKey(data[2], Head(keys)) /\ Lookup(data[2], Head(keys))[1] = "dict"
                 THEN Lookup(data[2], Head(keys))
                 ELSE PyDict(<<>>)
         IN  PyDict(Put(data[2], Head(keys), _set_nested_value(current, Tail(keys), value)))

_get_config_data(cfg) ==
    IF ~Returned(_ensure_initialized(cfg)) THEN _ensure_initialized(cfg)
    ELSE IF cfg[1] = "dict" THEN Return(cfg)
    ELSE Raise("RuntimeError")

\* A setter gives what the call does and the _config it leaves.
Done(outcome, cfg) == [out |-> outcome, cfg |-> cfg]

_set(cfg, key, value) ==
    IF ~Returned(_ensure_initialized(cfg)) THEN Done(_ensure_initialized(cfg), cfg)
    ELSE IF ~Returned(_get_config_data(cfg)) THEN Done(_get_config_data(cfg), cfg)
    ELSE Done(Return(PyNone), _set_nested_value(cfg, Split(key), value))

\* An argument the caller leaves out takes the value of the signature.
Absent == <<"absent">>
Arg(given, signature) == IF given = Absent THEN signature ELSE given

get_str(cfg, key, default) ==
    LET got == _get(cfg, key, Arg(default, PyStr(<<>>)))
    IN  IF Returned(got) THEN StrOf(got[2]) ELSE got

get_int(cfg, key, default) ==
    LET got == _get(cfg, key, Arg(default, PyInt(0)))
    IN  IF ~Returned(got) THEN got
        ELSE IF Returned(IntOf(got[2])) THEN IntOf(got[2])
        ELSE Raise("ValueError")

get_float(cfg, key, default) ==
    LET got == _get(cfg, key, Arg(default, PyFloat(0)))
    IN  IF ~Returned(got) THEN got
        ELSE IF Returned(FloatOf(got[2])) THEN FloatOf(got[2])
        ELSE Raise("ValueError")

TrueWords == { <<"t", "r", "u", "e">>, <<"1">>, <<"y", "e", "s">>, <<"o", "n">>,
               <<"e", "n", "a", "b", "l", "e", "d">> }

get_bool(cfg, key, default) ==
    LET got == _get(cfg, key, Arg(default, PyBool(FALSE)))
    IN  IF ~Returned(got) THEN got
        ELSE IF got[2][1] = "bool" THEN got
        ELSE IF got[2][1] = "str" THEN Return(PyBool(Lower(got[2][2]) \in TrueWords))
        ELSE Return(PyBool(Truthy(got[2])))

get_list(cfg, key, default) ==
    LET got == _get(cfg, key, IF Arg(default, PyNone) = PyNone THEN PyList(<<>>)
                              ELSE default)
    IN  IF ~Returned(got) THEN got
        ELSE IF got[2][1] # "list" THEN Raise("ValueError")
        ELSE got

set_str(cfg, key, value) == _set(cfg, key, StrOf(value)[2])

set_int(cfg, key, value) ==
    IF Returned(IntOf(value)) THEN _set(cfg, key, IntOf(value)[2])
    ELSE Done(IntOf(value), cfg)

set_float(cfg, key, value) ==
    IF Returned(FloatOf(value)) THEN _set(cfg, key, FloatOf(value)[2])
    ELSE Done(FloatOf(value), cfg)

set_bool(cfg, key, value) == _set(cfg, key, PyBool(Truthy(value)))

set_list(cfg, key, value) ==
    IF value[1] # "list" THEN Done(Raise("ValueError"), cfg)
    ELSE _set(cfg, key, value)

\* ---- the calls a session makes
\* init_config's config_path.
ConfigPath == PyStr(<<"a", "p", "p", "_", "c", "o", "n", "f", "i", "g", ".",
                      "y", "a", "m", "l">>)

\* The configuration file when the process starts: missing, malformed, empty,
\* a list, and two mappings, {a: {b: x}} and {a: x, c: null}.
ConfigFiles ==
    { <<"missing">>, <<"malformed">>, <<"empty">>,
      <<"doc", <<"seq", << <<"plain", <<"x">>>> >> >> >>,
      <<"doc", <<"map", << <<<<"a">>, <<"map", << <<<<"b">>, <<"plain", <<"x">>>>>> >> >> >> >> >> >>,
      <<"doc", <<"map", << <<<<"a">>, <<"plain", <<"x">>>>>>,
                           <<<<"c">>, <<"plain", <<"n", "u", "l", "l">>>>>> >> >> >> }

\* The keys asked for: a key, a key below it, and a key apart from both.
ConfigKeyPool == { <<"a">>, <<"a", ".", "b">>, <<"c">> }

\* The value handed to each setter: of the declared type, and for set_int and
\* set_list one that is not.
SetValues ==
    [set_str |-> {PyStr(<<"y">>), PyStr(<<"t", "r", "u", "e">>)},
     set_int |-> {PyInt(5), PyStr(<<"y">>)},
     set_float |-> {PyFloat(15)},
     set_bool |-> {PyBool(TRUE)},
     set_list |-> {PyList(<<PyStr(<<"y">>)>>), PyStr(<<"y">>)}]

\* The default handed to each getter: none, None, or one of the declared type.
GetDefaults ==
    [get_str |-> {Absent, PyNone, PyStr(<<"d">>)},
     get_int |-> {Absent, PyInt(7)},
     get_float |-> {Absent, PyFloat(25)},
     get_bool |-> {Absent, PyBool(TRUE)},
     get_list |-> {Absent, PyNone}]

CallOf(op, key, value, default) ==
    [op |-> op, key |-> key, value |-> value, default |-> default]

InitConfigSession ==
    /\ config = PyNone
    /\ config_path = PyNone
    /\ config_file \in ConfigFiles
    /\ ccall = CallOf("start", <<>>, Absent, Absent)
    /\ cret = Return(PyNone)
    /\ ncalls = 0
    /\ raw = <<>>
    /\ df = <<>>
    /\ post_contents = <<>>
    /\ cpc = "idle"
    /\ nm_in = <<>>
    /\ nm_cur = <<>>
    /\ nm_pc = "idle"
    /\ kdf = <<>>
    /\ n_candidates = 0
    /\ max_key_size = 0
    /\ sample_size = 0
    /\ prefer_patterns = <<>>
    /\ eligible_columns = <<>>
    /\ sample_df = {}
    /\ single_column_candidates = <<>>
    /\ candidates = <<>>
    /\ size = 0
    /\ examined = <<>>
    /\ result = <<>>
    /\ kpc = "idle"
    /\ col_combo = <<>>
    /\ score_patterns = <<>>
    /\ col_idx = 0
    /\ score = 0
    /\ spc = "idle"
    /\ fcall = <<>>
    /\ fsheet = 0
    /\ fresults = <<>>
    /\ fout = <<>>
    /\ fpc = "idle"
    /\ sources = <<>>
    /\ staging = <<"missing">>
    /\ stg_op = "idle"
    /\ stg_pc = "idle"
    /\ stg_idx = 0
    /\ stg_locked = {}
    /\ stg_before = <<"missing">>
    /\ stg_written = {}

\* init_config(config_path): loads only while _config is None.
init_config ==
    /\ ncalls < MaxCalls
    /\ ncalls' = ncalls + 1
    /\ ccall' = CallOf("init_config", <<>>, ConfigPath, Absent)
    /\ IF config = PyNone
       THEN IF Returned(safe_load(config_file))
            THEN /\ config' = safe_load(config_file)[2]
                 /\ config_path' = ConfigPath
                 /\ cret' = Return(config')
            ELSE /\ cret' = safe_load(config_file)
                 /\ UNCHANGED <<config, config_path>>
       ELSE /\ cret' = Return(config)
            /\ UNCHANGED <<config, config_path>>
    /\ UNCHANGED config_file
    /\ UNCHANGED <<cleanVars, nameVars, keyVars, scoreVars, fileVars, stageVars>>

GetStr ==
    /\ ncalls < MaxCalls
    /\ ncalls' = ncalls + 1
    /\ \E key \in ConfigKeyPool, default \in GetDefaults.get_str :
          /\ ccall' = CallOf("get_str", key, Absent, default)
          /\ cret' = get_str(config, key, default)
    /\ UNCHANGED <<config, config_path, config_file>>
    /\ UNCHANGED <<cleanVars, nameVars, keyVars, scoreVars, fileVars, stageVars>>

GetInt ==
    /\ ncalls < MaxCalls
    /\ ncalls' = ncalls + 1
    /\ \E key \in ConfigKeyPool, default \in GetDefaults.get_int :
          /\ ccall' = CallOf("get_int", key, Absent, default)
          /\ cret' = get_int(config, key, default)
    /\ UNCHANGED <<config, config_path, config_file>>
    /\ UNCHANGED <<cleanVars, nameVars, keyVars, scoreVars, fileVars, stageVars>>

GetFloat ==
    /\ ncalls < MaxCalls
    /\ ncalls' = ncalls + 1
    /\ \E key \in ConfigKeyPool, default \in GetDefaults.get_float :
          /\ ccall' = CallOf("get_float", key, Absent, default)
          /\ cret' = get_float(config, key, default)
    /\ UNCHANGED <<config, config_path, config_file>>
    /\ UNCHANGED <<cleanVars, nameVars, keyVars, scoreVars, fileVars, stageVars>>

GetBool ==
    /\ ncalls < MaxCalls
    /\ ncalls' = ncalls + 1
    /\ \E key \in ConfigKeyPool, default \in GetDefaults.get_bool :
          /\ ccall' = CallOf("get_bool", key, Absent, default)
          /\ cret' = get_bool(config, key, default)
    /\ UNCHANGED <<config, config_path, config_file>>
    /\ UNCHANGED <<cleanVars, nameVars, keyVars, scoreVars, fileVars, stageVars>>

GetList ==
    /\ ncalls < MaxCalls
    /\ ncalls' = ncalls + 1
    /\ \E key \in ConfigKeyPool, default \in GetDefaults.get_list :
          /\ ccall' = CallOf("get_list", key, Absent, default)
          /\ cret' = get_list(config, key, default)
    /\ UNCHANGED <<config, config_path, config_file>>
    /\ UNCHANGED <<cleanVars, nameVars, keyVars, scoreVars, fileVars, stageVars>>

SetStr ==
    /\ ncalls < MaxCalls
    /\ ncalls' = ncalls + 1
    /\ \E key \in ConfigKeyPool, value \in SetValues.set_str :
          /\ ccall' = CallOf("set_str", key, value, Absent)
          /\ cret' = set_str(config, key, value).out
          /\ config' = set_str(config, key, value).cfg
    /\ UNCHANGED <<config_path, config_file>>
    /\ UNCHANGED <<cleanVars, nameVars, keyVars, scoreVars, fileVars, stageVars>>

SetInt ==
    /\ ncalls < MaxCalls
    /\ ncalls' = ncalls + 1
    /\ \E key \in ConfigKeyPool, value \in SetValues.set_int :
          /\ ccall' = CallOf("set_int", key, value, Absent)
          /\ cret' = set_int(config, key, value).out
          /\ config' = set_int(config, key, value).cfg
    /\ UNCHANGED <<config_path, config_file>>
    /\ UNCHANGED <<cleanVars, nameVars, keyVars, scoreVars, fileVars, stageVars>>

SetFloat ==
    /\ ncalls < MaxCalls
    /\ ncalls' = ncalls + 1
    /\ \E key \in ConfigKeyPool, value \in SetValues.set_float :
          /\ ccall' = CallOf("set_float", key, value, Absent)
          /\ cret' = set_float(config, key, value).out
          /\ config' = set_float(config, key, value).cfg
    /\ UNCHANGED <<config_path, config_file>>
    /\ UNCHANGED <<cleanVars, nameVars, keyVars, scoreVars, fileVars, stageVars>>

SetBool ==
    /\ ncalls < MaxCalls
    /\ ncalls' = ncalls + 1
    /\ \E key \in ConfigKeyPool, value \in SetValues.set_bool :
          /\ ccall' = CallOf("set_bool", key, value, Absent)
          /\ cret' = set_bool(config, key, value).out
          /\ config' = set_bool(config, key, value).cfg
    /\ UNCHANGED <<config_path, config_file>>
    /\ UNCHANGED <<cleanVars, nameVars, keyVars, scoreVars, fileVars, stageVars>>

SetList ==
    /\ ncalls < MaxCalls
    /\ ncalls' = ncalls + 1
    /\ \E key \in ConfigKeyPool, value \in SetValues.set_list :
          /\ ccall' = CallOf("set_list", key, value, Absent)
          /\ cret' = set_list(config, key, value).out
          /\ config' = set_list(config, key, value).cfg
    /\ UNCHANGED <<config_path, config_file>>
    /\ UNCHANGED <<cleanVars, nameVars, keyVars, scoreVars, fileVars, stageVars>>

\* reload_config(): reads the file again when a path is known.
reload_config ==
    /\ ncalls < MaxCalls
    /\ ncalls' = ncalls + 1
    /\ ccall' = CallOf("reload_config", <<>>, Absent, Absent)
    /\ IF config_path # PyNone
       THEN IF Returned(safe_load(config_file))
            THEN config' = safe_load(config_file)[2] /\ cret' = Return(PyNone)
            ELSE config' = config /\ cret' = safe_load(config_file)
       ELSE config' = config /\ cret' = Return(PyNone)
    /\ UNCHANGED <<config_path, config_file>>
    /\ UNCHANGED <<cleanVars, nameVars, keyVars, scoreVars, fileVars, stageVars>>

\* save(): every exception of the try block is raised as IOError.
save ==
    /\ ncalls < MaxCalls
    /\ ncalls' = ncalls + 1
    /\ ccall' = CallOf("save", <<>>, Absent, Absent)
    /\ IF ~Returned(_ensure_initialized(config))
       THEN cret' = _ensure_initialized(config) /\ config_file' = config_file
       ELSE IF config_path = PyNone
       THEN cret' = Raise("RuntimeError") /\ config_file' = config_file
       ELSE IF ~Returned(_get_config_data(config))
       THEN cret' = Raise("IOError") /\ config_file' = config_file
       ELSE cret' = Return(PyNone) /\ config_file' = safe_dump(config)
    /\ UNCHANGED <<config, config_path>>
    /\ UNCHANGED <<cleanVars, nameVars, keyVars, scoreVars, fileVars, stageVars>>

NextConfig ==
    \/ init_config
    \/ GetStr
    \/ GetInt
    \/ GetFloat
    \/ GetBool
    \/ GetList
    \/ SetStr
    \/ SetInt
    \/ SetFloat
    \/ SetBool
    \/ SetList
    \/ reload_config
    \/ save

SpecConfig == InitConfigSession /\ [][NextConfig]_vars

\* ------------------------------------------------------------ lib/stage.py
\* Most files of the data sources directory.
MaxSources == 2

\* The sheets of a workbook, by position: "S 1", "S 2", ...
SheetName(k) == <<"S", " ">> \o Decimal(k)

\* extract_dataframes(filepath) as one function of the file: what the reads
\* give in order, filtered and cleaned, each with its identifier.
ReadAll(file) ==
    LET read == SelectSeq([k \in 1..Len(file.content) |-> k],
                          LAMBDA k : file.content[k].reads)
    IN  [j \in 1..Len(read) |->
            [frame |-> file.content[read[j]].frame,
             name |-> IF Lower(file.extension) \in ExcelExtensions
                      THEN file.stem \o <<"_">> \o SheetName(read[j])
                      ELSE file.stem]]

extract_dataframes(file) ==
    LET results ==
            IF file.locked THEN <<>>
            ELSE IF Lower(file.extension) \in ExcelExtensions
            THEN IF file.opens THEN ReadAll(file) ELSE <<>>
            ELSE IF Lower(file.extension) \in {CsvExtension, ParquetExtension}
            THEN ReadAll(file)
            ELSE <<>>
        kept == SelectSeq(results, LAMBDA x : Len(x.frame) > 0)
    IN  IF \E k \in 1..Len(kept) : df_clean_all_raises(kept[k].frame)
        THEN Raise("DuplicateError")
        ELSE Return([k \in 1..Len(kept) |->
                        [frame |-> df_clean_all(kept[k].frame), name |-> kept[k].name]])

\* re.sub(r"[\s\$\.]", "", identifier)
StagingName(identifier) ==
    SelectSeq(identifier, LAMBDA c : c \notin Whitespace \cup {"$", "."})

\* A directory is missing or holds entries <<name, content>>, one per name.
MissingDir == <<"missing">>
Dir(entries) == <<"dir", entries>>
Entries(dir) == IF dir[1] = "dir" THEN dir[2] ELSE {}
EntryNames(dir) == {e[1] : e \in Entries(dir)}

\* write_staging(df, filename): mkdir, then write <filename>.parquet over any
\* file of that name.
write_staging(dir, frame, filename) ==
    LET name == filename \o ParquetExtension
    IN  Dir({e \in Entries(dir) : e[1] # name} \cup {<<name, frame>>})

RECURSIVE WriteAll(_, _)
WriteAll(dir, dataframes) ==
    IF dataframes = <<>> THEN dir
    ELSE WriteAll(write_staging(dir, Head(dataframes).frame,
                                StagingName(Head(dataframes).name)),
                  Tail(dataframes))

\* glob.glob(os.path.join(dir, "*")): "*" matches no name that starts with a
\* dot.
GlobAll(dir) == {e \in Entries(dir) : Head(e[1]) # "."}

\* The files of the data sources directory, as glob lists them: a CSV file,
\* a CSV file named "$.csv", a workbook with a sheet that reads and one that
\* does not, a CSV file whose columns sanitise to one name, and a JSON file.
SourceFile(stem, extension, content) ==
    [stem |-> stem, extension |-> extension, locked |-> FALSE, opens |-> TRUE,
     content |-> content]

SourcePool ==
    LET one == << [name |-> <<"a">>, dtype |-> "Utf8", vals |-> <<S(<<"1">>)>>] >>
        two == << [name |-> <<"a", " ", "b">>, dtype |-> "Utf8", vals |-> <<S(<<"x">>)>>],
                  [name |-> <<"a", "-", "b">>, dtype |-> "Utf8", vals |-> <<S(<<"x">>)>>] >>
    IN  { SourceFile(<<"a">>, CsvExtension, << [reads |-> TRUE, frame |-> one] >>),
          SourceFile(<<"$">>, CsvExtension, << [reads |-> TRUE, frame |-> one] >>),
          SourceFile(<<"w">>, <<".", "x", "l", "s", "x">>,
                     << [reads |-> TRUE, frame |-> one], [reads |-> FALSE, frame |-> <<>>] >>),
          SourceFile(<<"b">>, CsvExtension, << [reads |-> TRUE, frame |-> two] >>),
          SourceFile(<<"n">>, <<".", "j", "s", "o", "n">>, << [reads |-> TRUE, frame |-> one] >>) }

SourceLists ==
    {s \in UNION {[1..n -> SourcePool] : n \in 0..MaxSources} :
        \A i, j \in 1..Len(s) : i # j => s[i] # s[j]}

\* The staging directory when the process starts: missing, empty, holding a
\* file of an earlier run, or holding only a hidden file.
StagingDirs ==
    { MissingDir, Dir({}),
      Dir({ << <<"o", "l", "d">> \o ParquetExtension, <<>> >> }),
      Dir({ << <<".", "g", "i", "t", "k", "e", "e", "p">>, <<>> >> }) }

InitStage ==
    /\ sources \in SourceLists
    /\ staging \in StagingDirs
    /\ stg_op = <<>>
    /\ stg_pc = "ready"
    /\ stg_idx = 0
    /\ stg_locked = {}
    /\ stg_before = MissingDir
    /\ stg_written = {}
    /\ raw = <<>>
    /\ df = <<>>
    /\ post_contents = <<>>
    /\ cpc = "idle"
    /\ nm_in = <<>>
    /\ nm_cur = <<>>
    /\ nm_pc = "idle"
    /\ kdf = <<>>
    /\ n_candidates = 0
    /\ max_key_size = 0
    /\ sample_size = 0
    /\ prefer_patterns = <<>>
    /\ eligible_columns = <<>>
    /\ sample_df = {}
    /\ single_column_candidates = <<>>
    /\ candidates = <<>>
    /\ size = 0
    /\ examined = <<>>
    /\ result = <<>>
    /\ kpc = "idle"
    /\ col_combo = <<>>
    /\ score_patterns = <<>>
    /\ col_idx = 0
    /\ score = 0
    /\ spc = "idle"
    /\ fcall = <<>>
    /\ fsheet = 0
    /\ fresults = <<>>
    /\ fout = <<>>
    /\ fpc = "idle"
    /\ config = <<"none">>
    /\ config_path = <<"none">>
    /\ config_file = <<"missing">>
    /\ ccall = <<>>
    /\ cret = <<>>
    /\ ncalls = 0

\* A call of stagefiles_refresh(): staging_reset comes first.  The files
\* rmtree will fail to delete (ignore_errors=True) are fixed here.
stagefiles_refresh ==
    /\ stg_pc \in {"ready", "done", "raised"}
    /\ stg_op' = <<"stagefiles_refresh">>
    /\ stg_pc' = "reset"
    /\ stg_before' = staging
    /\ stg_locked' \in SUBSET EntryNames(staging)
    /\ stg_idx' = 1
    /\ stg_written' = {}
    /\ UNCHANGED <<sources, staging>>
    /\ UNCHANGED <<cleanVars, nameVars, keyVars, scoreVars, fileVars, cfgVars>>

\* stagefiles_ensure(): refreshes when the directory does not exist or the
\* glob lists nothing.
stagefiles_ensure ==
    /\ stg_pc \in {"ready", "done", "raised"}
    /\ stg_before' = staging
    /\ stg_idx' = 1
    /\ stg_written' = {}
    /\ IF staging = MissingDir \/ GlobAll(staging) = {}
       THEN /\ stg_op' = <<"stagefiles_ensure", "stagefiles_refresh">>
            /\ stg_pc' = "reset"
            /\ stg_locked' \in SUBSET EntryNames(staging)
       ELSE /\ stg_op' = <<"stagefiles_ensure">>
            /\ stg_pc' = "done"
            /\ stg_locked' = {}
    /\ UNCHANGED <<sources, staging>>
    /\ UNCHANGED <<cleanVars, nameVars, keyVars, scoreVars, fileVars, cfgVars>>

\* staging_reset(): shutil.rmtree(staging_dir, ignore_errors=True), then mkdir.
staging_reset ==
    /\ stg_pc = "reset"
    /\ staging' = Dir({e \in Entries(staging) : e[1] \in stg_locked})
    /\ stg_pc' = "loop"
    /\ UNCHANGED <<sources, stg_op, stg_idx, stg_locked, stg_before, stg_written>>
    /\ UNCHANGED <<cleanVars, nameVars, keyVars, scoreVars, fileVars, cfgVars>>

\* One round of `for filepath in glob.glob(...)`: extract the file and write
\* each of its tables; an exception of extract_dataframes ends the refresh.
StageFile ==
    /\ stg_pc = "loop"
    /\ stg_idx <= Len(sources)
    /\ LET dataframes == extract_dataframes(sources[stg_idx])
       IN  IF Returned(dataframes)
           THEN /\ staging' = WriteAll(staging, dataframes[2])
                /\ stg_written' = Entries(WriteAll(Dir(stg_written), dataframes[2]))
                /\ stg_idx' = stg_idx + 1
                /\ stg_pc' = "loop"
           ELSE /\ stg_pc' = "raised"
                /\ UNCHANGED <<staging, stg_written, stg_idx>>
    /\ UNCHANGED <<sources, stg_op, stg_locked, stg_before>>
    /\ UNCHANGED <<cleanVars, nameVars, keyVars, scoreVars, fileVars, cfgVars>>

\* The loop is over: the call returns.
StageReturn ==
    /\ stg_pc = "loop"
    /\ stg_idx > Len(sources)
    /\ stg_pc' = "done"
    /\ UNCHANGED <<sources, staging, stg_op, stg_idx, stg_locked, stg_before,
                   stg_written>>
    /\ UNCHANGED <<cleanVars, nameVars, keyVars, scoreVars, fileVars, cfgVars>>

NextStage ==
    \/ stagefiles_refresh
    \/ stagefiles_ensure
    \/ staging_reset
    \/ StageFile
    \/ StageReturn

SpecStage == InitStage /\ [][NextStage]_vars

\* ------------------------------------------------------- specifications
SpecFiles == InitFiles /\ [][NextFiles]_vars
SpecScore == InitScore /\ [][NextScore]_vars
SpecClean == InitClean /\ [][NextClean]_vars
SpecNames == InitNames /\ [][NextNames]_vars
SpecKeys == InitKeys /\ [][NextKeys]_vars

\* ------------------------------------------------------------ the claims
Score(cols) == calculate_preference_score(cols, Patterns)
FullyUnique(cols) == UniqueOn(kdf, AllRows(kdf), cols)
EligibleUnique ==
    {c \in SeqToSet(filter_decimal_columns(kdf)) : FullyUnique(<<c>>)}

\* C1: every candidate find_ranked_composite_keys returns is unique over the
\* full table: the table projected onto its columns has as many distinct rows
\* as the table has rows.
C1_ReturnedKeysUnique ==
    kpc = "done" => \A i \in 1..Len(result) : FullyUnique(result[i])

\* A multi-column key is returned although the sample held fewer rows than
\* the table.
C1_Witness ==
    /\ kpc = "done"
    /\ result # <<>>
    /\ Len(result[1]) >= 2
    /\ Cardinality(sample_df) < Height(kdf)

\* C2: df_clean_all is idempotent: cleaning a cleaned table completes and
\* gives the same names, types, rows and values.
C2_Idempotent ==
    cpc = "done" => ~df_clean_all_raises(df) /\ df_clean_all(df) = df

NoNullRow(t) == \A r \in 1..Height(t) : ~RowAllNull(t, r)
NoNullCol(t) == \A i \in 1..Len(t) : ~ColAllNull(t[i])
AfterContents == {"pass1", "pass2", "pass3", "pass4", "pass5", "pass6", "pass7", "done"}

\* C3: the table df_clean_contents returns, and the one df_clean_all returns,
\* has no row that is null in every column and no column that is null in
\* every row.
C3_NoNullRowsOrCols ==
    cpc \in AfterContents => NoNullRow(df) /\ NoNullCol(df)

\* The cleaning dropped a row and a column and kept something.
C3_Witness ==
    /\ cpc = "pass1"
    /\ df # <<>>
    /\ Len(df) < Len(raw)
    /\ Height(df) < Height(raw)

\* C4: when some eligible column is unique over the full table, exactly one
\* candidate is returned, it has one column, no eligible unique column scores
\* higher, and no multi-column combination was examined or collected.
C4_SingleColumnShortCircuit ==
    (kpc = "done" /\ EligibleUnique # {}) =>
        /\ Len(result) = 1
        /\ Len(result[1]) = 1
        /\ result[1][1] \in EligibleUnique
        /\ \A c \in EligibleUnique : Score(result[1]) >= Score(<<c>>)
        /\ examined = <<>>
        /\ candidates = <<>>

\* Two eligible unique columns, and the one returned is not the first of them.
C4_Witness ==
    /\ kpc = "done"
    /\ Cardinality(EligibleUnique) >= 2
    /\ Height(kdf) >= 2
    /\ result # <<>>
    /\ result[1] # single_column_candidates[1][1]

\* A value no pass can convert: not a number as it stands, nor after the
\* parenthesis rewrite, nor after the currency strip, and not a date.
Unconvertible(c) ==
    /\ NotNull(c)
    /\ IsNull(CastFloat(c))
    /\ IsNull(ParenCast(c))
    /\ IsNull(CurrencyCast(c))
    /\ IsNull(CastDate(c))

\* C5: all-or-nothing retyping: a Text column holding a non-null value that
\* does not convert falls through every pass of redetermine_types and ends as
\* Text or Categorical with its values unchanged.
C5_AllOrNothing ==
    cpc \in {"done", "raised"} =>
        \A i \in 1..Len(post_contents) :
            (post_contents[i].dtype = "Utf8" /\ AnyCell(post_contents[i], Unconvertible))
            => /\ cpc = "done"
               /\ df[i].dtype \in {"Utf8", "Categorical"}
               /\ df[i].vals = post_contents[i].vals

\* A Text column with a null whose other values all convert under F.
HasNull(col) == AnyCell(col, IsNull)
ConvertsButForNulls(col, F(_)) ==
    /\ col.dtype = "Utf8"
    /\ HasNull(col)
    /\ AllCells(col, LAMBDA c : IsNull(c) \/ NotNull(F(c)))

NullsKept(before, after) ==
    \A r \in 1..Len(before.vals) : IsNull(before.vals[r]) <=> IsNull(after.vals[r])

BeforeCurrency == ParenNegativePass(PlainNumericPass(post_contents))
BeforeDate == WholeNumberPass(CurrencyPass(BeforeCurrency))

\* C6: nulls do not disqualify a column: the plain-numeric, the currency and
\* the date pass retype a Text column with nulls whose non-null values all
\* parse (to Float, Float and Date), and its nulls stay null.
C6_NullsDoNotDisqualify ==
    /\ cpc = "pass2" =>
          \A i \in 1..Len(post_contents) :
              ConvertsButForNulls(post_contents[i], CastFloat)
              => df[i].dtype = "Float64" /\ NullsKept(post_contents[i], df[i])
    /\ cpc = "pass4" =>
          \A i \in 1..Len(BeforeCurrency) :
              ConvertsButForNulls(BeforeCurrency[i], CurrencyCast)
              => df[i].dtype = "Float64" /\ NullsKept(BeforeCurrency[i], df[i])
    /\ cpc = "pass6" =>
          \A i \in 1..Len(BeforeDate) :
              ConvertsButForNulls(BeforeDate[i], CastDate)
              => df[i].dtype = "Date" /\ NullsKept(BeforeDate[i], df[i])

\* C7: a Text column with a parenthesised value and a value that is still not
\* a number after the rewrite and the strip does not make redetermine_types
\* raise, and the parenthesized-negative pass leaves it unchanged.
C7_ParenPassNeverRaises ==
    \A i \in 1..Len(post_contents) :
        ( /\ post_contents[i].dtype = "Utf8"
          /\ AnyCell(post_contents[i], LAMBDA c : NotNull(c) /\ MatchesParen(c[2]))
          /\ AnyCell(post_contents[i], LAMBDA c : NotNull(c) /\ IsNull(ParenCast(c))) )
        => /\ cpc # "raised"
           /\ cpc = "pass3" => df[i] = post_contents[i]

SafeNameChars ==
    SeqToSet(UpperLetters) \cup SeqToSet(LowerLetters) \cup Digits \cup {"_"}

\* C8: whatever the input name, the name df_clean_columns produces holds only
\* characters of [A-Za-z0-9_].
C8_SanitizedCharset ==
    nm_pc = "done" => SeqToSet(nm_cur) \subseteq SafeNameChars

\* C9: find_ranked_composite_keys returns at most n_candidates candidates,
\* also when the single-column short-circuit fires and when n_candidates is 0.
C9_AtMostNCandidates ==
    kpc = "done" => Len(result) <= n_candidates

ColumnOf(nm) == ColByName(kdf, nm)
Fractional(col) == col.dtype \in FloatTypes \cup {"Decimal"} /\ ~AllCells(col, IsWhole)
\* An Integer column, or a Float column that holds a value and only whole ones.
WholeValued(col) ==
    \/ col.dtype \in IntTypes
    \/ col.dtype \in FloatTypes /\ AnyCell(col, NotNull) /\ AllCells(col, IsWhole)

\* C11: no returned candidate holds a Float or Decimal column with a
\* non-integral value anywhere in the table, and every Integer column and
\* every Float column whose values are all integral is eligible.
C11_NoFractionalColumnInKey ==
    /\ kpc = "done" =>
          \A i \in 1..Len(result) : \A k \in 1..Len(result[i]) :
              ~Fractional(ColumnOf(result[i][k]))
    /\ kpc # "filter" =>
          \A i \in 1..Len(kdf) :
              WholeValued(kdf[i]) => kdf[i].name \in SeqToSet(eligible_columns)

\* C12: with max_key_size <= 0 the call fails with a configuration error: it
\* never returns a candidate list.
C12_NonPositiveKeySizeRejected ==
    max_key_size <= 0 => kpc # "done"

NoEligibleColumn == \A i \in 1..Len(kdf) : Fractional(kdf[i])

\* C13: with no eligible column (no column at all, or only Float columns
\* holding a fraction) the call returns the empty list at once: it draws no
\* sample and runs no uniqueness scan.
C13_NoEligibleReturnsEmpty ==
    (NoEligibleColumn /\ kpc # "filter") =>
        /\ kpc = "done"
        /\ result = <<>>
        /\ sample_df = {}
        /\ single_column_candidates = <<>>
        /\ examined = <<>>

\* What the claims expect of the content cleaning, stated on the raw table.
Canonical(c) ==
    IF IsNull(c) THEN Null
    ELSE IF Strip(c[2]) \in NULL_VALUE_STRINGS THEN Null
    ELSE S(Strip(c[2]))

ExpectedCell(col, r) ==
    IF col.dtype = "Utf8" THEN Canonical(col.vals[r]) ELSE col.vals[r]

\* The rows of the raw table that are not null in every column after
\* canonicalisation, in their order.
KeptRows ==
    SelectSeq([r \in 1..Height(raw) |-> r],
              LAMBDA r : \E i \in 1..Len(raw) : NotNull(ExpectedCell(raw[i], r)))

\* The raw column a cleaned column comes from.
SourceOf(col) == raw[CHOOSE i \in 1..Len(raw) : SanitizeName(raw[i].name) = col.name]

ExpectedVals(col) ==
    [k \in 1..Len(KeptRows) |-> ExpectedCell(SourceOf(col), KeptRows[k])]

\* C14: df_clean_contents strips before it matches: a Text value becomes null
\* when its stripped form is one of the null markers and its stripped form
\* otherwise (also when it holds a marker as a substring); values of other
\* columns are unchanged.
C14_StripThenMatch ==
    cpc \in AfterContents =>
        \A j \in 1..Len(post_contents) :
            post_contents[j].vals = ExpectedVals(post_contents[j])

\* A Text column held a padded marker and a padded word with a marker inside:
\* the first came out null, the second stripped.
C14_Witness ==
    /\ cpc = "pass1"
    /\ \E j \in 1..Len(df) :
          /\ SourceOf(df[j]).dtype = "Utf8"
          /\ SourceOf(df[j]).vals = <<S(<<" ", "*">>), S(<<"*", "x", " ">>)>>
          /\ df[j].vals = <<Null, S(<<"*", "x">>)>>

\* The forms a cell can take under the type passes: itself, its number, its
\* whole number or its date; null stays null and nothing becomes null.
Representations(c) ==
    IF IsNull(c) THEN {Null}
    ELSE IF c[1] = "s"
         THEN LET floats == {CastFloat(c), ParenCast(c), CurrencyCast(c)} \ {Null}
              IN  ({c, CastDate(c)} \ {Null}) \cup floats
                  \cup {CastInt(f) : f \in {g \in floats : g[3] = 0}}
    ELSE IF c[1] = "f" /\ c[3] = 0 THEN {c, CastInt(c)}
    ELSE {c}

\* C15: df_clean_all removes exactly the rows that are null in every column
\* after canonicalisation: the output rows are the other input rows, in their
\* order, each cell a representation of the input cell; equal rows are all
\* kept.
C15_OnlyNullRowsRemoved ==
    cpc = "done" =>
        /\ Height(df) = Len(KeptRows)
        /\ \A j \in 1..Len(df) :
              /\ Len(df[j].vals) = Len(KeptRows)
              /\ \A k \in 1..Len(KeptRows) :
                    df[j].vals[k] \in Representations(ExpectedVals(df[j])[k])

\* Two equal rows that are not null went in, and two rows came out.
C15_Witness ==
    /\ cpc = "done"
    /\ Len(raw) = 2
    /\ Height(raw) = 2
    /\ \A i \in 1..Len(raw) : raw[i].vals[1] = raw[i].vals[2]
    /\ Len(df) = 2
    /\ Height(df) = 2

AfterTypes == {"pass2", "pass3", "pass4", "pass5", "pass6", "pass7", "done"}

\* C16: a column that enters redetermine_types as Integer is an integer type
\* after every pass, and one that enters as Date is Date: neither is ever
\* turned into Text.
C16_IntegerAndDateKept ==
    cpc \in AfterTypes =>
        \A i \in 1..Len(post_contents) :
            /\ post_contents[i].dtype \in IntTypes => df[i].dtype \in IntTypes
            /\ post_contents[i].dtype = "Date" => df[i].dtype = "Date"

\* An Integer column came out narrower, next to a Date column.
C16_Witness ==
    /\ cpc = "done"
    /\ \E i, j \in 1..Len(post_contents) :
          /\ post_contents[i].dtype = "Int64"
          /\ df[i].dtype = "Int16"
          /\ post_contents[j].dtype = "Date"
          /\ df[j].dtype = "Date"

\* C17: df_clean_columns on a table with unique names either fails or returns
\* as many columns, in the same order, with pairwise distinct names and the
\* same types and values: two columns never end up under one name.
C17_NoSilentCollision ==
    (cpc = "clean_contents" /\ Injective(Names(raw))) =>
        /\ Len(df) = Len(raw)
        /\ Injective(Names(df))
        /\ \A i \in 1..Len(raw) :
              /\ df[i].name = SanitizeName(raw[i].name)
              /\ df[i].dtype = raw[i].dtype
              /\ df[i].vals = raw[i].vals

\* Two distinct names sanitise to one name and the call failed.
C17_Witness ==
    /\ cpc = "raised"
    /\ post_contents = <<>>
    /\ Len(raw) = 2
    /\ raw[1].name # raw[2].name
    /\ SanitizeName(raw[1].name) = SanitizeName(raw[2].name)

\* C18: df_clean_all on a table with no rows or no columns never raises, and
\* returns a table with no rows.
C18_EmptyInputCompletes ==
    (Len(raw) = 0 \/ Height(raw) = 0) =>
        /\ cpc # "raised"
        /\ cpc = "done" => Height(df) = 0

\* The name holds the pattern, whatever the case of the name's letters.
HoldsPattern(name, patterns) ==
    \E k \in 1..Len(patterns) : Contains(Lower(name), patterns[k])

RECURSIVE ExpectedScore(_, _)
ExpectedScore(cols, patterns) ==
    IF cols = <<>> THEN 0
    ELSE (IF HoldsPattern(Head(cols), patterns) THEN 10 ELSE 0)
         + (IF 20 - Len(Head(cols)) > 0 THEN 20 - Len(Head(cols)) ELSE 0)
         + ExpectedScore(Tail(cols), patterns)

ReadRaised ==
    \/ /\ fcall.op = "extract"
       /\ ~fcall.locked
       /\ \/ /\ Lower(fcall.extension) \in ExcelExtensions
             /\ ~fcall.opens \/ \E k \in 1..Len(fcall.content) : ~fcall.content[k].reads
          \/ /\ Lower(fcall.extension) \in {CsvExtension, ParquetExtension}
             /\ ~fcall.content[1].reads
    \/ /\ fcall.op = "read"
       /\ fcall.file_type \in {"Staging", "Output"}
       /\ fcall.exists
       /\ Lower(fcall.extension) \in {CsvExtension, ParquetExtension}
       /\ ~fcall.content[1].reads

\* C19: when opening or parsing the file raises, what extract_dataframes or
\* read_dataframe returns differs from what they return for a file without
\* tables, of an unsupported type or that does not exist: it is neither the
\* empty list nor None.
C19_ReadFailureSurfaced ==
    (fpc = "done" /\ ReadRaised) => fout \notin {ListOf(<<>>), NoneValue}

\* The name holds the pattern when the case of both is set aside.
HoldsPatternAnyCase(name, patterns) ==
    \E k \in 1..Len(patterns) : Contains(Lower(name), Lower(patterns[k]))

\* C21: the +10 bonus is granted whenever the name contains a pattern of the
\* list under case-insensitive comparison, whatever the case of the name or
\* of the pattern.
C21_CaseInsensitiveBonus ==
    (spc = "done" /\ Len(col_combo) = 1) =>
        (HoldsPatternAnyCase(col_combo[1], score_patterns)
         => score = 10 + Max(0, 20 - Len(col_combo[1])))

\* C22: no returned candidate has a proper, non-empty subset of its columns
\* that is itself unique over the full table.
C22_MinimalKeys ==
    kpc = "done" =>
        \A i \in 1..Len(result) : \A k \in 1..(Len(result[i]) - 1) :
            \A c \in 1..Len(Combinations(result[i], k)) :
                ~FullyUnique(Combinations(result[i], k)[c])

\* The combinations of `sz` eligible columns that are unique over the table.
UniqueCombos(sz) ==
    SelectSeq(Combinations(eligible_columns, sz), FullyUnique)

RECURSIVE AccumulatedAfter(_)
AccumulatedAfter(sz) ==
    IF sz < 2 THEN 0 ELSE Len(UniqueCombos(sz)) + AccumulatedAfter(sz - 1)

LargestSize == Min(max_key_size, Len(eligible_columns))
SearchOver == kpc \in {"return", "done"} /\ eligible_columns # <<>>
                 /\ single_column_candidates = <<>>

\* C26: with no qualifying single column the sizes are examined in ascending
\* order from 2, none above min(max_key_size, number of eligible columns);
\* every qualifying combination of an examined size is collected; a larger
\* size is examined only while the candidates accumulated after the last
\* completed size number fewer than n_candidates, and the search goes on to
\* the largest size unless that stop applies; the result is in size order.
C26_SizeOrderAndEarlyStop ==
    /\ \A k \in 1..Len(examined) : examined[k] = k + 1 /\ examined[k] <= LargestSize
    /\ \A k \in 1..(Len(examined) - 1) : AccumulatedAfter(examined[k]) < n_candidates
    /\ SearchOver =>
          /\ Len(candidates) = AccumulatedAfter(Len(examined) + 1)
          /\ \A x \in 1..Len(candidates) :
                \E c \in 1..Len(UniqueCombos(candidates[x][2])) :
                    UniqueCombos(candidates[x][2])[c] = candidates[x][1]
          /\ \/ Len(examined) + 1 >= LargestSize
             \/ AccumulatedAfter(Len(examined) + 1) >= n_candidates
    /\ kpc = "done" =>
          \A i, j \in 1..Len(result) : i < j => Len(result[i]) <= Len(result[j])

\* find_ranked_composite_keys with the sample taken out: every test is made on
\* the full table.
RefEligible == filter_decimal_columns(kdf)
RefLimit == Min(max_key_size + 1, Len(RefEligible) + 1)
RefQualifying(combos) ==
    LET ok == SelectSeq(combos, FullyUnique)
    IN  [i \in 1..Len(ok) |-> Candidate(ok[i])]

RECURSIVE RefSearch(_, _)
RefSearch(sz, acc) ==
    IF sz >= RefLimit THEN acc
    ELSE LET found == RefQualifying(Combinations(RefEligible, sz))
             all == acc \o SortByScore(found)
         IN  IF found # <<>> /\ Len(all) >= n_candidates THEN all
             ELSE RefSearch(sz + 1, all)

RefResult ==
    LET singles == RefQualifying([i \in 1..Len(RefEligible) |-> <<RefEligible[i]>>])
        multi == RefSearch(2, <<>>)
    IN  IF RefEligible = <<>> THEN <<>>
        ELSE IF singles # <<>> THEN <<SortByScore(singles)[1][1]>>
        ELSE [i \in 1..Min(n_candidates, Len(multi)) |-> multi[i][1]]

\* C28: the returned list is the same for every sample of every size: it is
\* the list the search gives when every test is made on the full table.
C28_SampleIndependent ==
    kpc = "done" => result = RefResult

\* A sample smaller than the table let through a column that is not unique
\* over the full table, and a key was returned.
C28_Witness ==
    /\ kpc = "done"
    /\ result # <<>>
    /\ Cardinality(sample_df) < Height(kdf)
    /\ \E k \in 1..Len(eligible_columns) :
          /\ UniqueOn(kdf, sample_df, <<eligible_columns[k]>>)
          /\ ~FullyUnique(<<eligible_columns[k]>>)

\* A column that came in as Text and that an earlier pass has retyped.
RetypedFromText(i) == post_contents[i].dtype = "Utf8" /\ df[i].dtype # "Utf8"

\* C27: each pass decides from the table the pass before it produced: the
\* currency, date and categorical passes leave alone a column that an earlier
\* pass retyped from Text, and the whole-number pass turns into Integer every
\* Float column of whole values it finds, also one that an earlier pass of the
\* run has just made Float.
C27_PassesReadCurrentTable ==
    [][ /\ cpc \in {"pass3", "pass5", "pass6"} =>
              \A i \in 1..Len(df) : RetypedFromText(i) => df'[i] = df[i]
        /\ cpc = "pass4" =>
              \A i \in 1..Len(df) :
                  (df[i].dtype = "Float64" /\ AllCells(df[i], IsWhole))
                  => df'[i].dtype = "Int64" ]_vars

\* A column that came in as Text has been made Float and then Integer.
C27_Witness ==
    /\ cpc = "pass5"
    /\ \E i \in 1..Len(df) :
          /\ post_contents[i].dtype = "Utf8"
          /\ df[i].dtype = "Int64"

\* C29: df_clean_contents on a table with no rows, or whose rows are all null
\* after canonicalisation, returns a table with no columns.
C29_EmptyRowsLoseAllColumns ==
    (cpc \in AfterContents /\ (Height(raw) = 0 \/ KeptRows = <<>>)) =>
        post_contents = <<>>

\* Two columns with two rows of null markers and nulls went in; no column
\* came out.
C29_Witness ==
    /\ cpc = "pass1"
    /\ Len(raw) = 2
    /\ Height(raw) = 2
    /\ \E i \in 1..Len(raw) : \E r \in 1..Height(raw) : NotNull(raw[i].vals[r])
    /\ df = <<>>

\* ------------------------------------------------------------- C23 .. C25
GuardedOps == {"get_str", "get_int", "get_float", "get_bool", "get_list",
               "set_str", "set_int", "set_float", "set_bool", "set_list", "save"}
Uninitialised == config = PyNone /\ config_path = PyNone

\* C23 as stated: while init_config has not completed (_config and
\* _config_path are both None), every getter, setter and save raises
\* RuntimeError and changes neither _config nor _config_path.
C23_UninitialisedRaisesRuntimeError ==
    [][(Uninitialised /\ ccall'.op \in GuardedOps)
          => /\ cret' = Raise("RuntimeError")
             /\ config' = config
             /\ config_path' = config_path]_vars

\* The exception a setter raises on its value argument before it looks at the
\* configuration, or Absent when it accepts the value.
ValueRejected(call) ==
    IF call.op = "set_int" /\ ~Returned(IntOf(call.value)) THEN IntOf(call.value)
    ELSE IF call.op = "set_float" /\ ~Returned(FloatOf(call.value))
    THEN FloatOf(call.value)
    ELSE IF call.op = "set_list" /\ call.value[1] # "list" THEN Raise("ValueError")
    ELSE Absent

\* C23, amended: while init_config has not completed, every getter, setter
\* and save leaves _config and _config_path unchanged and raises RuntimeError,
\* unless a setter rejects its value argument first, and then raises that
\* exception.
C23_UninitialisedRaises ==
    [][(Uninitialised /\ ccall'.op \in GuardedOps)
          => /\ cret' = IF ValueRejected(ccall') = Absent THEN Raise("RuntimeError")
                        ELSE ValueRejected(ccall')
             /\ config' = config
             /\ config_path' = config_path]_vars

\* A setter with an accepted value has raised RuntimeError on the
\* uninitialised module.
C23_Witness ==
    /\ Uninitialised
    /\ ccall.op = "set_int"
    /\ ccall.value = PyInt(5)
    /\ cret = Raise("RuntimeError")

TypedGetters == {"get_str", "get_int", "get_float", "get_bool", "get_list"}

\* The key path leads to no entry of the configuration.
RECURSIVE Missing(_, _)
Missing(value, keys) ==
    /\ keys # <<>>
    /\ \/ value[1] # "dict"
       \/ ~HasKey(value[2], Head(keys))
       \/ Missing(Lookup(value[2], Head(keys)), Tail(keys))

\* C24: after init_config has loaded a mapping, a typed getter called without
\* a default on a key that is absent from the configuration raises KeyError.
C24_MissingKeyRaisesKeyError ==
    (/\ ccall.op \in TypedGetters
     /\ ccall.default = Absent
     /\ config[1] = "dict"
     /\ Missing(config, Split(ccall.key)))
    => cret = Raise("KeyError")

SetOps == {"set_str", "set_int", "set_float", "set_bool", "set_list"}

\* What get_str(key) returns on a configuration.
StrValue(cfg, key) == get_str(cfg, key, Absent)

IsPrefix(s, t) == Len(s) <= Len(t) /\ SubSeq(t, 1, Len(s)) = s

\* One key path is the other or lies below it.
Overlap(k1, k2) == IsPrefix(Split(k1), Split(k2)) \/ IsPrefix(Split(k2), Split(k1))

\* What save and reload_config do to the file and the configuration.
SaveAndReload ==
    /\ (ccall'.op = "save" /\ Returned(cret'))
          => /\ safe_load(config_file') = Return(config')
             /\ config' = config
    /\ (ccall'.op = "reload_config" /\ Returned(cret') /\ config # PyNone)
          => /\ Return(config') = safe_load(config_file)
             /\ config_file' = config_file
    /\ (ccall.op = "save" /\ Returned(cret) /\ ccall'.op = "reload_config")
          => config' = config

\* C25 as stated: get_str(k) returns the value of the most recent set_str(k, v)
\* since the last reload_config (here: over the call that follows it, which is
\* neither reload_config nor a set of k itself); save makes the file equal to
\* the configuration; reload_config replaces the configuration by the file, so
\* that save followed by reload_config changes nothing.
C25_SetSaveReload ==
    [][/\ (ccall'.op = "set_str" /\ Returned(cret'))
             => StrValue(config', ccall'.key) = StrOf(ccall'.value)
       /\ (/\ ccall.op = "set_str" /\ Returned(cret)
           /\ ccall'.op # "reload_config"
           /\ ~(ccall'.op \in SetOps /\ ccall'.key = ccall.key))
             => StrValue(config', ccall.key) = StrOf(ccall.value)
       /\ SaveAndReload]_vars

\* C25, amended: the value get_str(k) returns is the one of set_str(k, v)
\* right after that call, and is changed by no later call other than
\* reload_config and a set of k, of a key above k or of a key below k; save
\* and reload_config as stated.
C25_SetSaveReloadApart ==
    [][/\ (ccall'.op = "set_str" /\ Returned(cret'))
             => StrValue(config', ccall'.key) = StrOf(ccall'.value)
       /\ \A k \in ConfigKeyPool :
             (/\ config # PyNone
              /\ ccall'.op \notin {"reload_config", "init_config"}
              /\ ~(ccall'.op \in SetOps /\ Overlap(ccall'.key, k)))
             => StrValue(config', k) = StrValue(config, k)
       /\ SaveAndReload]_vars

\* reload_config has read back a string that set_str wrote and save stored.
C25_Witness ==
    /\ ccall.op = "reload_config"
    /\ Returned(cret)
    /\ config # PyNone
    /\ StrValue(config, <<"a", ".", "b">>) = Return(PyStr(<<"t", "r", "u", "e">>))

\* -------------------------------------------------------------------- C30
RefreshDone == stg_pc = "done" /\ stg_op # <<>> /\ stg_op[Len(stg_op)] = "stagefiles_refresh"
EnsureDone == stg_pc = "done" /\ stg_op # <<>> /\ stg_op[1] = "stagefiles_ensure"

\* C30: when stagefiles_refresh has completed, the staging directory holds
\* only files written during that refresh; stagefiles_ensure invokes
\* stagefiles_refresh exactly when the staging directory was missing or had no
\* entries, and otherwise leaves the directory as it was.
C30_StagingRefreshProtocol ==
    /\ RefreshDone => Entries(staging) \subseteq stg_written
    /\ EnsureDone =>
          /\ (Len(stg_op) = 2) <=> (stg_before = MissingDir \/ Entries(stg_before) = {})
          /\ (Len(stg_op) = 1) => staging = stg_before

====
